---- MODULE Spec2Model ----
(***************************************************************************)
(* A model of the ClaDI service container (BaseContainer) and of the       *)
(* process-wide container directory it resolves classes through.           *)
(*                                                                         *)
(* JavaScript values are records [k, name, id]: k is the shape the code    *)
(* tests with typeof / .prototype / Reflect.hasMetadata, name is the       *)
(* identity of a catalogue item (a registered object, a class, an arrow    *)
(* function) and id is the identity of an object created at run time.      *)
(* A call of the container is one action; the nested calls it makes        *)
(* (get -> resolve -> get, get -> factory -> get) are computed by the      *)
(* recursive operators Get, Resolve, ResolveArgs and CallFactory, which    *)
(* thread the container state through the calls in program order.          *)
(***************************************************************************)
EXTENDS Integers, Sequences, FiniteSets, TLC

\* ------------------------------------------------------------------ bounds

\* Number of objects (class instances, factory products) created in one run.
MaxId == 2

\* Depth of nested get/resolve/factory calls the call stack holds; a deeper
\* call raises RangeError (an Error) like the engine's stack overflow.
MaxDepth == 5

\* Longest token array passed to getMany, registerMany, unregisterMany.
MaxLen == 2

\* Number of result arrays the registry creates in one run.
MaxRefs == 3

\* Length of an array a caller adds elements to.
MaxArray == 3

\* Number of objects on the heap in one run: the caller's templates and the
\* objects the factory makes from them.
MaxCells == 10

\* ------------------------------------------------------------------ values

Val(k, name, id) == [k |-> k, name |-> name, id |-> id]

\* No key in the Map (Map.has is false, Map.get gives undefined).
Absent == Val("absent", "", 0)

\* The JavaScript value undefined.
Undef == Val("undefined", "", 0)

\* Plain objects a caller registers.
O1 == Val("object", "O1", 0)

O2 == Val("object", "O2", 0)

\* A class (a function with a prototype); its decorator metadata is ClassMeta.
Class(n) == Val("class", n, 0)

\* An arrow function (a function without a prototype); its body is FactoryBody.
Arrow(n) == Val("arrow", n, 0)

\* The object the id-th instantiation of class n created.
Instance(n, id) == Val("instance", n, id)

\* The object the id-th run of arrow function n created.
Fresh(n, id) == Val("object", n, id)

Tokens == {"T1", "T2"}

\* A null / undefined token argument.
NoToken == "null"

\* Container names (symbols) and the absent name.
Names == {"A", "B"}

NoName == "none"

\* ------------------------------------------------------------------ catalogue of classes and arrow functions

\* Reflect metadata of each class: owner is INJECTABLE_CONTAINER_KEY (NoName
\* when the class is not decorated), paramtypes is the length of
\* design:paramtypes, hasInj tells whether INJECT_TOKEN_KEY holds a Map and inj
\* is that Map as its <<index, token>> entries in insertion order; throws tells
\* whether the constructor body throws an Error.  Parameter decorators run from
\* the last parameter to the first, so a class decorated on parameters 0 and 1
\* has the entry of 1 before the entry of 0.
ClassMeta ==
  [ K0     |-> [owner |-> "A", paramtypes |-> 0, hasInj |-> FALSE, inj |-> << >>, throws |-> FALSE],
    K1     |-> [owner |-> "A", paramtypes |-> 1, hasInj |-> TRUE, inj |-> << <<0, "T2">> >>, throws |-> FALSE],
    KThrow |-> [owner |-> "A", paramtypes |-> 0, hasInj |-> FALSE, inj |-> << >>, throws |-> TRUE],
    KPlain |-> [owner |-> NoName, paramtypes |-> 0, hasInj |-> FALSE, inj |-> << >>, throws |-> FALSE],
    KB     |-> [owner |-> "B", paramtypes |-> 2, hasInj |-> TRUE, inj |-> << <<1, "T2">>, <<0, "T1">> >>, throws |-> FALSE],
    KMap   |-> [owner |-> "B", paramtypes |-> 0, hasInj |-> TRUE, inj |-> << <<1, "T2">>, <<0, "T1">> >>, throws |-> FALSE],
    KPart  |-> [owner |-> "B", paramtypes |-> 2, hasInj |-> TRUE, inj |-> << <<0, "T1">> >>, throws |-> FALSE],
    KGap   |-> [owner |-> "B", paramtypes |-> 0, hasInj |-> TRUE, inj |-> << <<1, "T2">> >>, throws |-> FALSE],
    KNoMap |-> [owner |-> "B", paramtypes |-> 1, hasInj |-> FALSE, inj |-> << >>, throws |-> FALSE],
    KZ     |-> [owner |-> "Z", paramtypes |-> 0, hasInj |-> FALSE, inj |-> << >>, throws |-> FALSE] ]

ClassNames == DOMAIN ClassMeta

\* The classes a caller registers under a token.
RegisteredClasses == {"K0", "K1", "KThrow", "KPlain"}

\* What each arrow function does when the container calls it with
\* { container: this }: "fresh" returns a new object, "value" returns val,
\* "throw" throws (an Error when isError, else a string), "get" returns
\* context.container.get(tok); "unregister" calls
\* context.container.unregister(tok), "clear" calls context.container.clear()
\* and "register" calls context.container.register(tok, val), each returning
\* a new object afterwards.
FactoryBody ==
  [ FNew   |-> [act |-> "fresh", val |-> Undef, isError |-> FALSE, tok |-> NoToken],
    FUndef |-> [act |-> "value", val |-> Undef, isError |-> FALSE, tok |-> NoToken],
    FArrow |-> [act |-> "value", val |-> Arrow("FNew"), isError |-> FALSE, tok |-> NoToken],
    FErr   |-> [act |-> "throw", val |-> Undef, isError |-> TRUE, tok |-> NoToken],
    FStr   |-> [act |-> "throw", val |-> Undef, isError |-> FALSE, tok |-> NoToken],
    FGet2  |-> [act |-> "get", val |-> Undef, isError |-> FALSE, tok |-> "T2"],
    FUnreg |-> [act |-> "unregister", val |-> Undef, isError |-> FALSE, tok |-> "T1"],
    FClear |-> [act |-> "clear", val |-> Undef, isError |-> FALSE, tok |-> NoToken],
    FReg2  |-> [act |-> "register", val |-> O1, isError |-> FALSE, tok |-> "T2"] ]

FactoryNames == DOMAIN FactoryBody

\* The arrow functions a caller registers in the runs of the single-token
\* operations: the ones that do not write to the container.
RegisteredFactories == {"FNew", "FUndef", "FArrow", "FErr", "FStr", "FGet2"}

\* The implementations a caller passes to register.
Impls ==
  {Undef, O1, O2} \cup {Class(n) : n \in RegisteredClasses} \cup {Arrow(n) : n \in RegisteredFactories}

\* typeof v === "function"
IsFunction(v) == v.k \in {"class", "arrow"}

\* v.prototype is truthy
HasPrototype(v) == v.k = "class"

\* Reflect.hasMetadata(INJECTABLE_CONTAINER_KEY, v)
HasInjectableMeta(v) == v.k = "class" /\ ClassMeta[v.name].owner # NoName

\* Mutant of IsInjectableConstructor: every function with a prototype counts.
IsConstructorShape(v) == IsFunction(v) /\ HasPrototype(v)

\* The three shapes get distinguishes.
IsInjectableConstructor(v) == IsFunction(v) /\ HasPrototype(v) /\ HasInjectableMeta(v)

IsDynamicFactory(v) == IsFunction(v) /\ ~HasPrototype(v)

\* ------------------------------------------------------------------ errors

\* One error object of a cause chain: code, and the context fields token /
\* parameterIndex / className where the code sets them.
Link(code, token, index, cls) == [code |-> code, token |-> token, index |-> index, cls |-> cls]

\* A thrown value: isError is "instanceof Error"; chain is the error followed
\* by its CAUSE, the cause's CAUSE, and so on.
Exc(isError, chain) == [isError |-> isError, chain |-> chain]

NoExc == Exc(FALSE, << >>)

\* new BaseError(..., { code, context }) without a cause.
BaseError(code, token, index, cls) == Exc(TRUE, << Link(code, token, index, cls) >>)

\* Mutant of Wrap: the underlying error is dropped.
WrapNoCause(code, token, index, cls, e) == Exc(TRUE, << Link(code, token, index, cls) >>)

\* new BaseError(..., { cause: error instanceof Error ? error : undefined, code, context })
Wrap(code, token, index, cls, e) ==
  Exc(TRUE, << Link(code, token, index, cls) >> \o (IF e.isError THEN e.chain ELSE << >>))

\* What user code throws: an Error object, or a string.
UserError == Exc(TRUE, << Link("USER_ERROR", NoToken, -1, "") >>)

UserString == Exc(FALSE, << Link("USER_STRING", NoToken, -1, "") >>)

\* Mutant of RangeError: the exhausted call stack surfaces as a thrown string.
RangeErrorAsString == Exc(FALSE, << Link("RANGE_ERROR", NoToken, -1, "") >>)

\* The engine's "Maximum call stack size exceeded".
RangeError == Exc(TRUE, << Link("RANGE_ERROR", NoToken, -1, "") >>)

\* ------------------------------------------------------------------ state

VARIABLES
  deps,       \* deps[c][t]: BaseContainer.DEPENDENCIES of container c (Absent: no key)
  directory,  \* directory[n]: the container containerRegistry holds under name n
  containers, \* the BaseContainer objects constructed so far
  nextId,     \* identity of the next object created at run time
  reg,        \* history: reg[c][t] is the implementation t was registered with
  memo,       \* history: memo[c][t] is what the first successful get(t) since then returned
  last,       \* the last call: operation, arguments, state before, outcome, calls made
  ITEMS,      \* BaseRegistry.ITEMS: the entries <<key, value>> in insertion order
  CACHE,      \* BaseRegistry.CACHE: CACHE[key] is the result array cached under key
  nextRef,    \* identity of the next array the registry creates
  held,       \* history: the array the last getAll returned; stale: a register succeeded, an
              \* unregister ran or the entries changed since; quiet: only queries were made since
  called,     \* the last call on the registry: operation, arguments, state before, outcome
  heap,       \* the objects of the templates and of the values made from them: heap[r] is
              \* the object with identity r
  FACTORY_CACHE, \* BaseFactory.CACHE: FACTORY_CACHE[name] is the object cached under name
  TRANSFORMER,   \* BaseFactory.TRANSFORMER: "none" or the name of the configured function
  given,      \* the objects the last two successful create calls returned, newest first
  created,    \* the last call on the factory: operation, name, state before and after, outcome
  span        \* history, per name: the registry queries of create(name), those that found a
              \* template and the transformer runs since the last clearCache call; what the
              \* first create(name) answered with the cached value returned, and what the
              \* template that value was made from looked like

containerVars == <<deps, directory, containers, nextId, reg, memo, last>>

registryVars == <<ITEMS, CACHE, nextRef, held, called>>

factoryVars == <<heap, FACTORY_CACHE, TRANSFORMER, given, created, span>>

vars == <<deps, directory, containers, nextId, reg, memo, last, ITEMS, CACHE, nextRef, held, called,
          heap, FACTORY_CACHE, TRANSFORMER, given, created, span>>

\* The container objects: A and B exist from the start, C is constructed later.
Containers == {"A", "B", "C"}

NoContainer == "none"

\* The containers the calls of a run are made on.
OpContainers == {"A"}

\* The part of the state nested calls read and write.
St(d, n, g, m, ev) == [deps |-> d, nextId |-> n, reg |-> g, memo |-> m, ev |-> ev]

\* An entry of the call log of one operation.
Event(e, c, t, who, args) == [e |-> e, c |-> c, t |-> t, who |-> who, args |-> args]

Log(st, ev) == [st EXCEPT !.ev = Append(st.ev, ev)]

\* Outcomes of a call: a returned value, or a thrown one.
Return(st, v) == [st |-> st, ok |-> TRUE, val |-> v, exc |-> NoExc]

Throw(st, e) == [st |-> st, ok |-> FALSE, val |-> Undef, exc |-> e]

\* ------------------------------------------------------------------ BaseContainer

\* Mutant of Has: presence tested by the stored value instead of by the key.
HasDefined(d, c, t) == t # NoToken /\ d[c][t] # Absent /\ d[c][t] # Undef

\* has(token): Map.has
Has(d, c, t) == t # NoToken /\ d[c][t] # Absent

\* DEPENDENCIES.get(token): undefined for a missing key and for a stored undefined
MapGet(d, c, t) == IF d[c][t] = Absent THEN Undef ELSE d[c][t]

\* Mutant of DirectoryGet: a name the directory does not hold is answered
\* with the first container instead of undefined.
DirectoryGetDefault(dir, n) == IF n \in DOMAIN dir THEN dir[n] ELSE "A"

\* Mutant of DirectoryGet: the container the call was made on is taken in
\* place of the one the directory holds under the name.
DirectoryGetCaller(dir, n) == IF n \in DOMAIN dir THEN "A" ELSE NoContainer

\* containerRegistry.get(name)
DirectoryGet(dir, n) == IF n \in DOMAIN dir THEN dir[n] ELSE NoContainer

\* new constructor(...args)
Instantiate(st, K, args) ==
  IF ClassMeta[K.name].throws
    THEN Throw(Log(st, Event("new", NoContainer, NoToken, K, args)),
               Wrap("CONTAINER_INSTANTIATION_FAILED", NoToken, -1, K.name, UserError))
    ELSE LET obj == Instance(K.name, st.nextId)
         IN Return([Log(st, Event("new", NoContainer, NoToken, obj, args)) EXCEPT !.nextId = st.nextId + 1], obj)

\* validInjectionMap.get(index)
InjGet(inj, index) ==
  LET hits == {i \in 1..Len(inj) : inj[i][1] = index}
  IN IF hits = {} THEN NoToken ELSE inj[CHOOSE i \in hits : TRUE][2]

\* Math.max(...mapKeys) + 1
ParameterCount(inj) ==
  LET keys == {inj[i][1] : i \in 1..Len(inj)}
  IN (CHOOSE k \in keys : \A j \in keys : j <= k) + 1

\* register(token, implementation) called on container c.
Register(st, c, t, impl) ==
  IF t = NoToken
    THEN Throw(st, BaseError("CONTAINER_TOKEN_NOT_NULL_OR_UNDEFINED", NoToken, -1, ""))
  ELSE IF Has(st.deps, c, t)
    THEN Throw(st, BaseError("CONTAINER_DEPENDENCY_ALREADY_EXISTS", t, -1, ""))
  ELSE Return([st EXCEPT !.deps[c][t] = impl, !.reg[c][t] = impl, !.memo[c][t] = Absent], Undef)

\* Mutant of Unregister: the Map entry is left in place.
UnregisterNoDelete(st, c, t) ==
  IF t = NoToken
    THEN Throw(st, BaseError("CONTAINER_TOKEN_NOT_NULL_OR_UNDEFINED", NoToken, -1, ""))
  ELSE Return([st EXCEPT !.reg[c][t] = Absent, !.memo[c][t] = Absent], Undef)

\* Mutant of Unregister: a token that is not registered is an error.
UnregisterStrict(st, c, t) ==
  IF t = NoToken
    THEN Throw(st, BaseError("CONTAINER_TOKEN_NOT_NULL_OR_UNDEFINED", NoToken, -1, ""))
  ELSE IF st.deps[c][t] = Absent
    THEN Throw(st, BaseError("CONTAINER_DEPENDENCY_NOT_FOUND", t, -1, ""))
  ELSE Return([st EXCEPT !.deps[c][t] = Absent, !.reg[c][t] = Absent, !.memo[c][t] = Absent], Undef)

\* unregister(token) called on container c.
Unregister(st, c, t) ==
  IF t = NoToken
    THEN Throw(st, BaseError("CONTAINER_TOKEN_NOT_NULL_OR_UNDEFINED", NoToken, -1, ""))
  ELSE Return([st EXCEPT !.deps[c][t] = Absent, !.reg[c][t] = Absent, !.memo[c][t] = Absent], Undef)

\* clear() called on container c.
Clear(st, c) ==
  Return([st EXCEPT !.deps[c] = [t \in Tokens |-> Absent],
                    !.reg[c] = [t \in Tokens |-> Absent],
                    !.memo[c] = [t \in Tokens |-> Absent]], Undef)

RECURSIVE Get(_, _, _, _, _)
RECURSIVE Resolve(_, _, _, _, _)
RECURSIVE ResolveArgs(_, _, _, _, _, _, _)
RECURSIVE ResolveEntries(_, _, _, _, _, _, _)
RECURSIVE CallFactory(_, _, _, _, _)

\* The loop of resolve over the parameter positions index..paramtypes-1.
ResolveArgs(st, dir, target, K, index, args, fuel) ==
  LET meta == ClassMeta[K.name] IN
  IF index >= meta.paramtypes THEN Return(st, args)
  ELSE LET injectionToken == InjGet(meta.inj, index) IN
    IF injectionToken = NoToken
      THEN Throw(st, BaseError("CONTAINER_MISSING_INJECT_DECORATOR", NoToken, index, K.name))
    ELSE LET r == Get(Log(st, Event("inject", target, injectionToken, K, << >>)), dir, target, injectionToken, fuel) IN
      IF r.ok
        THEN ResolveArgs(r.st, dir, target, K, index + 1, Append(args, r.val), fuel)
        ELSE Throw(r.st, Wrap("CONTAINER_DEPENDENCY_RESOLUTION_FAILED", injectionToken, index, K.name, r.exc))

\* The loop of resolve over the entries of the injection map (the path taken
\* when design:paramtypes is empty and the map is not), from entry i on.
ResolveEntries(st, dir, target, K, i, args, fuel) ==
  LET meta == ClassMeta[K.name] IN
  IF i > Len(meta.inj) THEN Return(st, args)
  ELSE LET index == meta.inj[i][1]
           injectionToken == meta.inj[i][2]
           r == Get(Log(st, Event("inject", target, injectionToken, K, << >>)), dir, target, injectionToken, fuel)
       IN IF r.ok
            THEN ResolveEntries(r.st, dir, target, K, i + 1, [args EXCEPT ![index + 1] = r.val], fuel)
            ELSE Throw(r.st, Wrap("CONTAINER_DEPENDENCY_RESOLUTION_FAILED", injectionToken, index, K.name, r.exc))

\* resolve(constructor) called on container c.
Resolve(st, dir, c, K, fuel) ==
  LET meta == ClassMeta[K.name]
      containerName == meta.owner
      targetContainer == DirectoryGet(dir, containerName)
  IN
  IF fuel = 0 THEN Throw(st, RangeError)
  ELSE IF containerName = NoName
    THEN Throw(st, BaseError("CONTAINER_CLASS_NOT_INJECTABLE", NoToken, -1, K.name))
  ELSE IF targetContainer = NoContainer
    THEN Throw(st, BaseError("CONTAINER_INSTANCE_NOT_FOUND", NoToken, -1, K.name))
  ELSE IF meta.paramtypes = 0 /\ meta.hasInj /\ Len(meta.inj) > 0
    THEN LET r == ResolveEntries(st, dir, targetContainer, K, 1,
                                 [i \in 1..ParameterCount(meta.inj) |-> Undef], fuel - 1)
         IN IF r.ok THEN Instantiate(r.st, K, r.val) ELSE r
  ELSE IF meta.paramtypes < 0
    THEN Throw(st, BaseError("CONTAINER_METADATA_ERROR", NoToken, -1, K.name))
  ELSE IF meta.hasInj
    THEN LET r == ResolveArgs(st, dir, targetContainer, K, 0, << >>, fuel - 1)
         IN IF r.ok THEN Instantiate(r.st, K, r.val) ELSE r
  ELSE IF meta.paramtypes > 0
    THEN Throw(st, BaseError("CONTAINER_MISSING_INJECTION_METADATA", NoToken, -1, K.name))
  ELSE Instantiate(st, K, << >>)

\* The rest of an arrow function after its call r on the container: the
\* exception of r goes on, otherwise a new object is returned.
ThenFresh(r, f) ==
  IF r.ok THEN Return([r.st EXCEPT !.nextId = r.st.nextId + 1], Fresh(f.name, r.st.nextId)) ELSE r

\* factory({ container: this }) for the arrow function f stored in container c.
CallFactory(st, dir, c, f, fuel) ==
  LET body == FactoryBody[f.name]
      st1 == Log(st, Event("call", c, NoToken, f, << >>))
  IN
  IF fuel = 0 THEN Throw(st, RangeError)
  ELSE IF body.act = "fresh"
    THEN Return([st1 EXCEPT !.nextId = st.nextId + 1], Fresh(f.name, st.nextId))
  ELSE IF body.act = "value" THEN Return(st1, body.val)
  ELSE IF body.act = "throw" THEN Throw(st1, IF body.isError THEN UserError ELSE UserString)
  ELSE IF body.act = "get" THEN Get(st1, dir, c, body.tok, fuel - 1)
  ELSE ThenFresh(IF body.act = "unregister" THEN Unregister(st1, c, body.tok)
                 ELSE IF body.act = "clear" THEN Clear(st1, c)
                 ELSE Register(st1, c, body.tok, body.val), f)

\* Mutant of Memoize: the resolved instance is returned but not stored.
MemoizeNothing(st, c, t, instance) == st

\* Mutant of Memoize: the instance is stored only under a key the Map still has.
MemoizePresent(st, c, t, instance) ==
  IF st.deps[c][t] = Absent THEN st ELSE [st EXCEPT !.deps[c][t] = instance]

\* this.DEPENDENCIES.set(token, instance) after a successful resolution.
Memoize(st, c, t, instance) == [st EXCEPT !.deps[c][t] = instance]

\* Mutant of NotFound: a missing dependency is answered with undefined.
NotFoundTolerant(st, t) == Return(st, Undef)

\* The warning and the error get raises when DEPENDENCIES.get gives undefined.
NotFound(st, t) == Throw(st, BaseError("CONTAINER_DEPENDENCY_NOT_FOUND", t, -1, ""))

\* History: the first value a successful get(t) returned since t was registered.
Remember(st, c, t, v) ==
  IF st.memo[c][t] = Absent /\ st.deps[c][t] # Absent
    THEN [st EXCEPT !.memo[c][t] = v]
    ELSE st

\* The state st with the call log and the object count of st2.
Undone(st, st2) == [st EXCEPT !.ev = st2.ev, !.nextId = st2.nextId]

\* Mutant of Get: a failing resolution or factory call undoes the entries
\* written inside it.
GetUndoing(st, dir, c, t, fuel) ==
  IF fuel = 0 THEN Throw(st, RangeError)
  ELSE IF t = NoToken
    THEN Throw(st, BaseError("CONTAINER_TOKEN_NOT_NULL_OR_UNDEFINED", NoToken, -1, ""))
  ELSE LET registeredValue == MapGet(st.deps, c, t) IN
    IF registeredValue = Undef
      THEN NotFound(st, t)
    ELSE IF IsInjectableConstructor(registeredValue)
      THEN LET r == Resolve(st, dir, c, registeredValue, fuel - 1) IN
           IF r.ok
             THEN Return(Remember(Memoize(r.st, c, t, r.val), c, t, r.val), r.val)
             ELSE Throw(Undone(st, r.st), Wrap("CONTAINER_DEPENDENCY_RESOLUTION_FAILED", t, -1, "", r.exc))
    ELSE IF IsDynamicFactory(registeredValue)
      THEN LET r == CallFactory(st, dir, c, registeredValue, fuel - 1) IN
           IF r.ok
             THEN Return(Remember(Memoize(r.st, c, t, r.val), c, t, r.val), r.val)
             ELSE Throw(Undone(st, r.st), Wrap("CONTAINER_FACTORY_EXECUTION_FAILED", t, -1, "", r.exc))
    ELSE Return(Remember(st, c, t, registeredValue), registeredValue)

\* get(token) called on container c.
Get(st, dir, c, t, fuel) ==
  IF fuel = 0 THEN Throw(st, RangeError)
  ELSE IF t = NoToken
    THEN Throw(st, BaseError("CONTAINER_TOKEN_NOT_NULL_OR_UNDEFINED", NoToken, -1, ""))
  ELSE LET registeredValue == MapGet(st.deps, c, t) IN
    IF registeredValue = Undef
      THEN NotFound(st, t)
    ELSE IF IsInjectableConstructor(registeredValue)
      THEN LET r == Resolve(st, dir, c, registeredValue, fuel - 1) IN
           IF r.ok
             THEN Return(Remember(Memoize(r.st, c, t, r.val), c, t, r.val), r.val)
             ELSE Throw(r.st, Wrap("CONTAINER_DEPENDENCY_RESOLUTION_FAILED", t, -1, "", r.exc))
    ELSE IF IsDynamicFactory(registeredValue)
      THEN LET r == CallFactory(st, dir, c, registeredValue, fuel - 1) IN
           IF r.ok
             THEN Return(Remember(Memoize(r.st, c, t, r.val), c, t, r.val), r.val)
             ELSE Throw(r.st, Wrap("CONTAINER_FACTORY_EXECUTION_FAILED", t, -1, "", r.exc))
    ELSE Return(Remember(st, c, t, registeredValue), registeredValue)

\* The tokens in the order their values are listed; deps does not keep the
\* insertion order of the Map, so the positions in a getAll array stand for the
\* elements only.
TokenOrder == <<"T1", "T2">>

\* [...this.DEPENDENCIES.values()] of container c: the values of the keys the
\* Map has, a stored undefined included.
MapValuesOf(d, c) ==
  LET F[i \in 0..Len(TokenOrder)] ==
        IF i = 0 THEN << >>
        ELSE IF d[c][TokenOrder[i]] = Absent THEN F[i - 1]
        ELSE Append(F[i - 1], d[c][TokenOrder[i]])
  IN F[Len(TokenOrder)]

\* .filter((value) => !isInjectableConstructor)
FilterResolved(items) ==
  LET F[i \in 0..Len(items)] ==
        IF i = 0 THEN << >>
        ELSE IF IsInjectableConstructor(items[i]) THEN F[i - 1] ELSE Append(F[i - 1], items[i])
  IN F[Len(items)]

\* getAll() called on container c.
GetAll(st, c) == Return(st, FilterResolved(MapValuesOf(st.deps, c)))

\* A token array argument: an array, or null, or a non-array object.
TokenArray(kind, items) == [kind |-> kind, items |-> items]

\* An implementations argument: an object whose own keys are the tokens t with
\* map[t] # Absent, or null.
ImplRecord(kind, map) == [kind |-> kind, map |-> map]

NoArray == TokenArray("array", << >>)

NoRecord == ImplRecord("object", [t \in Tokens |-> Absent])

RECURSIVE GetEach(_, _, _, _, _, _)
\* tokens.map((token) => this.get(token)) from position i on.
RECURSIVE GetEachNext(_, _, _, _, _, _)
GetEach(st, dir, c, items, i, out) ==
  IF i > Len(items) THEN Return(st, out)
  ELSE GetEachNext(Get(st, dir, c, items[i], MaxDepth), dir, c, items, i, out)

\* What the loop does with the outcome r of this.get(items[i]): a value is
\* collected and the loop goes on, an error leaves the loop.
GetEachNext(r, dir, c, items, i, out) ==
  IF r.ok THEN GetEach(r.st, dir, c, items, i + 1, Append(out, r.val)) ELSE r

\* .filter((item) => item !== undefined)
FilterDefined(items) ==
  LET F[i \in 0..Len(items)] ==
        IF i = 0 THEN << >>
        ELSE IF items[i] = Undef THEN F[i - 1] ELSE Append(F[i - 1], items[i])
  IN F[Len(items)]

\* The outcome r of the map over the tokens, with the filter applied to its array.
Filtered(r) == IF r.ok THEN Return(r.st, FilterDefined(r.val)) ELSE r

\* getMany(tokens) called on container c.
GetMany(st, dir, c, tokens) ==
  IF tokens.kind = "null"
    THEN Throw(st, BaseError("CONTAINER_TOKENS_NOT_NULL_OR_UNDEFINED", NoToken, -1, ""))
  ELSE IF tokens.kind # "array"
    THEN Throw(st, BaseError("CONTAINER_TOKENS_NOT_ARRAY", NoToken, -1, ""))
  ELSE Filtered(GetEach(st, dir, c, tokens.items, 1, << >>))

RECURSIVE RegisterEach(_, _, _, _, _)
\* The loop of registerMany from position i on: a failing register is caught
\* and logged, a token without a key is skipped with a warning.
RegisterEach(st, c, items, map, i) ==
  IF i > Len(items) THEN Return(st, Undef)
  ELSE LET token == items[i] IN
    IF map[token] # Absent
      THEN LET r == Register(st, c, token, map[token]) IN
           IF r.ok
             THEN RegisterEach(Log(r.st, Event("registered", c, token, map[token], << >>)), c, items, map, i + 1)
             ELSE RegisterEach(Log(r.st, Event("caught", c, token, map[token], << >>)), c, items, map, i + 1)
      ELSE RegisterEach(Log(st, Event("skipped", c, token, Absent, << >>)), c, items, map, i + 1)

\* registerMany(tokens, implementations) called on container c.
RegisterMany(st, c, tokens, implementations) ==
  IF tokens.kind = "null"
    THEN Throw(st, BaseError("CONTAINER_TOKENS_NOT_NULL_OR_UNDEFINED", NoToken, -1, ""))
  ELSE IF tokens.kind # "array"
    THEN Throw(st, BaseError("CONTAINER_TOKENS_NOT_ARRAY", NoToken, -1, ""))
  ELSE IF implementations.kind # "object"
    THEN Throw(st, BaseError("CONTAINER_IMPLEMENTATIONS_NOT_OBJECT", NoToken, -1, ""))
  ELSE RegisterEach(st, c, tokens.items, implementations.map, 1)

RECURSIVE UnregisterEach(_, _, _, _)
\* The loop of unregisterMany from position i on.
UnregisterEach(st, c, items, i) ==
  IF i > Len(items) THEN Return(st, Undef)
  ELSE LET r == Unregister(st, c, items[i]) IN
       IF r.ok THEN UnregisterEach(r.st, c, items, i + 1) ELSE r

\* unregisterMany(tokens) called on container c.
UnregisterMany(st, c, tokens) ==
  IF tokens.kind = "null"
    THEN Throw(st, BaseError("CONTAINER_TOKENS_NOT_NULL_OR_UNDEFINED", NoToken, -1, ""))
  ELSE IF tokens.kind # "array"
    THEN Throw(st, BaseError("CONTAINER_TOKENS_NOT_ARRAY", NoToken, -1, ""))
  ELSE UnregisterEach(st, c, tokens.items, 1)

\* ------------------------------------------------------------------ inputs

\* Token arrays of at most MaxLen tokens, with repetitions.
TokenSeqs == UNION {[1..n -> Tokens] : n \in 0..MaxLen}

TokenArrays ==
  {TokenArray("array", s) : s \in TokenSeqs} \cup {TokenArray("null", << >>), TokenArray("object", << >>)}

\* The values registerMany is given.
ManyImpls == {O1}

RegisterInputs == (Tokens \X Impls) \cup {<<NoToken, O1>>}

\* The implementations register is given in the runs of the bulk operations.
BulkImpls == {Undef, Class("K0"), Arrow("FUndef"), Arrow("FErr")}

BulkRegisterInputs == Tokens \X BulkImpls

TokenInputs == Tokens \cup {NoToken}

\* The argument pairs of registerMany: every array with every object, and one
\* pair for each malformed argument.
RegisterManyInputs ==
  ({TokenArray("array", s) : s \in TokenSeqs}
     \X {ImplRecord("object", m) : m \in [Tokens -> ManyImpls \cup {Absent}]})
  \cup {<<TokenArray("null", << >>), NoRecord>>,
        <<TokenArray("object", << >>), NoRecord>>,
        <<NoArray, ImplRecord("null", [t \in Tokens |-> Absent])>>}

\* ------------------------------------------------------------------ actions

Core == [deps |-> deps, reg |-> reg, memo |-> memo, nextId |-> nextId]

Start == St(deps, nextId, reg, memo, << >>)

\* The call op(c, t, impl, tokens, implementations) had outcome r.
Done(op, c, t, impl, tokens, implementations, r) ==
  /\ r.st.nextId <= MaxId
  /\ deps' = r.st.deps
  /\ nextId' = r.st.nextId
  /\ reg' = r.st.reg
  /\ memo' = r.st.memo
  /\ last' = [op |-> op, c |-> c, t |-> t, impl |-> impl, tokens |-> tokens,
              implementations |-> implementations, pre |-> Core,
              ok |-> r.ok,
              val |-> IF op \in {"getMany", "getAll"} THEN Undef ELSE r.val,
              vals |-> IF op \in {"getMany", "getAll"} /\ r.ok THEN r.val ELSE << >>,
              exc |-> r.exc, ev |-> r.st.ev,
              name |-> NoName, dir |-> directory, made |-> containers]
  /\ UNCHANGED <<directory, containers, registryVars, factoryVars>>

CallRegister(inputs) ==
  \E c \in OpContainers, in \in inputs :
    Done("register", c, in[1], in[2], NoArray, NoRecord, Register(Start, c, in[1], in[2]))

CallGet ==
  \E c \in OpContainers, t \in TokenInputs :
    Done("get", c, t, Absent, NoArray, NoRecord, Get(Start, directory, c, t, MaxDepth))

CallHas ==
  \E c \in OpContainers, t \in TokenInputs :
    Done("has", c, t, Absent, NoArray, NoRecord,
         [st |-> Start, ok |-> Has(deps, c, t), val |-> Undef, exc |-> NoExc])

CallUnregister ==
  \E c \in OpContainers, t \in TokenInputs :
    Done("unregister", c, t, Absent, NoArray, NoRecord, Unregister(Start, c, t))

\* Mutant of CallClear: clear also takes the container out of the directory.
CallClearLeaving ==
  \E c \in OpContainers :
    /\ deps' = Clear(Start, c).st.deps
    /\ reg' = Clear(Start, c).st.reg
    /\ memo' = Clear(Start, c).st.memo
    /\ last' = [op |-> "clear", c |-> c, t |-> NoToken, impl |-> Absent, tokens |-> NoArray,
                implementations |-> NoRecord, pre |-> Core, ok |-> TRUE, val |-> Undef,
                vals |-> << >>, exc |-> NoExc, ev |-> << >>,
                name |-> NoName, dir |-> directory, made |-> containers]
    /\ directory' = [n \in {m \in DOMAIN directory : directory[m] # c} |-> directory[n]]
    /\ UNCHANGED <<nextId, containers, registryVars, factoryVars>>

CallClear ==
  \E c \in OpContainers :
    Done("clear", c, NoToken, Absent, NoArray, NoRecord, Clear(Start, c))

CallGetAll ==
  \E c \in OpContainers :
    Done("getAll", c, NoToken, Absent, NoArray, NoRecord, GetAll(Start, c))

CallGetManyOf(arrays) ==
  \E c \in OpContainers, tokens \in arrays :
    Done("getMany", c, NoToken, Absent, tokens, NoRecord, GetMany(Start, directory, c, tokens))

CallGetMany == CallGetManyOf(TokenArrays)

CallRegisterManyOf(inputs) ==
  \E c \in OpContainers, in \in inputs :
    Done("registerMany", c, NoToken, Absent, in[1], in[2], RegisterMany(Start, c, in[1], in[2]))

CallRegisterMany == CallRegisterManyOf(RegisterManyInputs)

CallUnregisterManyOf(arrays) ==
  \E c \in OpContainers, tokens \in arrays :
    Done("unregisterMany", c, NoToken, Absent, tokens, NoRecord, UnregisterMany(Start, c, tokens))

CallUnregisterMany == CallUnregisterManyOf(TokenArrays)

\* The names a container is constructed with: the two in use and a new one.
NewNames == Names \cup {"Z"}

\* The classes resolve is called with directly.
ResolveClasses ==
  {Class(n) : n \in {"K0", "K1", "KPlain", "KB", "KMap", "KPart", "KGap", "KNoMap", "KZ"}}

\* The register calls of the runs of resolve: <<container, token, implementation>>.
ResolveRegisterInputs ==
  ({"A"} \X Tokens \X {O1}) \cup ({"B"} \X Tokens \X {O1, Class("K0")})

\* register(token, implementation) on a chosen container.
CallRegisterOn(inputs) ==
  \E in \in inputs :
    Done("register", in[1], in[2], in[3], NoArray, NoRecord, Register(Start, in[1], in[2], in[3]))

\* Mutant of CallResolve: a direct resolve memoizes the instance under every
\* token that holds the class.
CallResolveMemoizing ==
  \E c \in OpContainers, K \in ResolveClasses :
    LET r == Resolve(Start, directory, c, K, MaxDepth)
        stored == [cc \in Containers |-> [t \in Tokens |->
                     IF r.st.deps[cc][t] = K THEN r.val ELSE r.st.deps[cc][t]]]
    IN Done("resolve", c, NoToken, K, NoArray, NoRecord,
            IF r.ok THEN [r EXCEPT !.st.deps = stored] ELSE r)

\* resolve(constructor) called directly.
CallResolve ==
  \E c \in OpContainers, K \in ResolveClasses :
    Done("resolve", c, NoToken, K, NoArray, NoRecord, Resolve(Start, directory, c, K, MaxDepth))

\* Mutant of DirectoryHas: no name is ever found taken.
DirectoryHasNever(dir, n) == FALSE

\* ITEMS.has(String(name)) of containerRegistry
DirectoryHas(dir, n) == n \in DOMAIN dir

\* ITEMS.set(String(name), item) of containerRegistry
DirectorySet(dir, n, c) == [m \in DOMAIN dir \cup {n} |-> IF m = n THEN c ELSE dir[m]]

\* ITEMS.delete(String(name)) of containerRegistry
DirectoryDelete(dir, n) == [m \in DOMAIN dir \ {n} |-> dir[m]]

\* A call on the container directory had outcome ok / exc; the containers'
\* entries are not touched.
DirectoryDone(op, c, n, ok, exc) ==
  /\ last' = [op |-> op, c |-> c, t |-> NoToken, impl |-> Absent, tokens |-> NoArray,
              implementations |-> NoRecord, pre |-> Core, ok |-> ok, val |-> Undef,
              vals |-> << >>, exc |-> exc, ev |-> << >>,
              name |-> n, dir |-> directory, made |-> containers]
  /\ UNCHANGED <<deps, nextId, reg, memo, registryVars, factoryVars>>

\* new BaseContainer({ name }): the constructor registers the new object in
\* containerRegistry, whose register raises when the name is taken.
NewContainer ==
  \E n \in NewNames :
    IF DirectoryHas(directory, n)
      THEN /\ DirectoryDone("construct", NoContainer, n, FALSE,
                            BaseError("REGISTRY_ITEM_ALREADY_EXISTS", NoToken, -1, ""))
           /\ UNCHANGED <<directory, containers>>
      ELSE /\ Containers \ containers # {}
           /\ LET c == CHOOSE c \in Containers \ containers : TRUE IN
              /\ DirectoryDone("construct", c, n, TRUE, NoExc)
              /\ directory' = DirectorySet(directory, n, c)
              /\ containers' = containers \cup {c}

\* containerRegistry.unregister(name)
DirectoryUnregister ==
  \E n \in NewNames :
    /\ DirectoryDone("directory.unregister", NoContainer, n, TRUE, NoExc)
    /\ directory' = DirectoryDelete(directory, n)
    /\ UNCHANGED containers

\* ------------------------------------------------------------------ BaseRegistry

\* A symbol: its identity and its description.
Symbol(id, description) == [id |-> id, description |-> description]

\* A null / undefined name argument.
NoSymbol == Symbol(0, "undefined")

\* Mutant of String: the string form tells symbols of one description apart.
StringOfIdentity(name) ==
  IF name = NoSymbol THEN "undefined"
  ELSE "Symbol(" \o name.description \o ")#" \o <<"1", "2", "3", "4", "5">>[name.id]

\* String(name): "Symbol(description)" for a symbol, "undefined" for undefined.
String(name) ==
  IF name = NoSymbol THEN "undefined" ELSE "Symbol(" \o name.description \o ")"

RECURSIVE Join(_)
\* strings.join(",")
Join(strings) ==
  IF Len(strings) = 0 THEN ""
  ELSE IF Len(strings) = 1 THEN strings[1]
  ELSE strings[1] \o "," \o Join(Tail(strings))

\* The cache key of getAll.
GetAllKey == "getAll"

\* Mutant of GetManyKey: one key for every query by names.
GetManyKeyShared(names) == "getMany:"

\* The cache key of getMany: `getMany:${names.map(String).join(",")}`
GetManyKey(names) == "getMany:" \o Join([i \in 1..Len(names) |-> String(names[i])])

\* The items a caller registers.
I1 == Val("object", "I1", 0)

I2 == Val("object", "I2", 0)

\* A result array: its identity and its elements.
Array(ref, items) == [ref |-> ref, items |-> items]

\* No array: undefined.
NoResult == Array(-1, << >>)

\* An entry of ITEMS.
Entry(key, value) == [key |-> key, value |-> value]

\* ITEMS.has(key)
MapHas(m, key) == \E i \in 1..Len(m) : m[i].key = key

\* ITEMS.get(key)
MapLookup(m, key) ==
  IF MapHas(m, key) THEN m[CHOOSE i \in 1..Len(m) : m[i].key = key].value ELSE Undef

\* ITEMS.set(key, value): a new key goes last, a present key keeps its place.
MapSet(m, key, value) ==
  IF MapHas(m, key)
    THEN [i \in 1..Len(m) |-> IF m[i].key = key THEN Entry(key, value) ELSE m[i]]
    ELSE Append(m, Entry(key, value))

\* ITEMS.delete(key)
MapDelete(m, key) == SelectSeq(m, LAMBDA e : e.key # key)

\* [...ITEMS.values()]
MapValues(m) == [i \in 1..Len(m) |-> m[i].value]

\* CACHE.get(key)
CacheGet(cache, key) == IF key \in DOMAIN cache THEN cache[key] ELSE NoResult

\* CACHE.set(key, result)
CacheSet(cache, key, result) ==
  [k \in DOMAIN cache \cup {key} |-> IF k = key THEN result ELSE cache[k]]

\* The empty CACHE.
NoCache == [k \in {} |-> NoResult]

\* The registry's fields, as the operations read and write them.
RSt(items, cache, ref) == [ITEMS |-> items, CACHE |-> cache, nextRef |-> ref]

\* Outcomes of a registry call.
RReturn(rs, v) == [st |-> rs, ok |-> TRUE, val |-> v, exc |-> NoExc]

RThrow(rs, code) == [st |-> rs, ok |-> FALSE, val |-> NoResult, exc |-> BaseError(code, NoToken, -1, "")]

\* Mutant of ClearCache: the cache is kept.
ClearCacheNot(rs) == rs

\* clearCache() without a key: CACHE.clear()
ClearCache(rs) == [rs EXCEPT !.CACHE = NoCache]

\* get(name)
RegistryGet(rs, name) ==
  IF name = NoSymbol THEN Undef ELSE MapLookup(rs.ITEMS, String(name))

\* has(name)
RegistryHas(rs, name) == name # NoSymbol /\ MapHas(rs.ITEMS, String(name))

\* Mutant of RegistryGetAll: the caller receives a copy of the cached array.
RegistryGetAllCopy(rs) ==
  LET cachedResult == CacheGet(rs.CACHE, GetAllKey) IN
  IF cachedResult # NoResult
    THEN RReturn([rs EXCEPT !.nextRef = rs.nextRef + 1], Array(rs.nextRef, cachedResult.items))
  ELSE LET result == Array(rs.nextRef, MapValues(rs.ITEMS)) IN
       RReturn([rs EXCEPT !.CACHE = CacheSet(rs.CACHE, GetAllKey, result), !.nextRef = rs.nextRef + 2],
               Array(rs.nextRef + 1, result.items))

\* getAll()
RegistryGetAll(rs) ==
  LET cachedResult == CacheGet(rs.CACHE, GetAllKey) IN
  IF cachedResult # NoResult THEN RReturn(rs, cachedResult)
  ELSE LET result == Array(rs.nextRef, MapValues(rs.ITEMS)) IN
       RReturn([rs EXCEPT !.CACHE = CacheSet(rs.CACHE, GetAllKey, result), !.nextRef = rs.nextRef + 1], result)

\* names.map((name) => this.get(name)).filter((item) => item !== undefined)
Present(rs, names) == FilterDefined([i \in 1..Len(names) |-> RegistryGet(rs, names[i])])

\* getMany(names); names is an array, or null, or a non-array object.
RegistryGetMany(rs, names) ==
  IF names.kind = "null" THEN RThrow(rs, "REGISTRY_NAMES_NOT_NULL_OR_UNDEFINED")
  ELSE IF names.kind # "array" THEN RThrow(rs, "REGISTRY_NAMES_NOT_ARRAY")
  ELSE LET cacheKey == GetManyKey(names.items)
           cachedResult == CacheGet(rs.CACHE, cacheKey)
       IN IF cachedResult # NoResult THEN RReturn(rs, cachedResult)
          ELSE LET result == Array(rs.nextRef, Present(rs, names.items)) IN
               RReturn([rs EXCEPT !.CACHE = CacheSet(rs.CACHE, cacheKey, result), !.nextRef = rs.nextRef + 1], result)

\* Mutant of RegistryRegister: a present name is overwritten.
RegistryRegisterOver(rs, name, item) ==
  IF item = Undef THEN RThrow(rs, "REGISTRY_ITEM_NOT_NULL_OR_UNDEFINED")
  ELSE RReturn(ClearCache([rs EXCEPT !.ITEMS = MapSet(rs.ITEMS, String(name), item)]), NoResult)

\* register(name, item)
RegistryRegister(rs, name, item) ==
  IF item = Undef THEN RThrow(rs, "REGISTRY_ITEM_NOT_NULL_OR_UNDEFINED")
  ELSE IF RegistryHas(rs, name) THEN RThrow(rs, "REGISTRY_ITEM_ALREADY_EXISTS")
  ELSE RReturn(ClearCache([rs EXCEPT !.ITEMS = MapSet(rs.ITEMS, String(name), item)]), NoResult)

RECURSIVE RegistryRegisterEach(_, _, _)
\* The loop of registerMany over the own symbol keys of items, from entry i
\* on: an entry without a value is passed over, a failing register ends it.
RegistryRegisterEach(rs, entries, i) ==
  IF i > Len(entries) THEN RReturn(rs, NoResult)
  ELSE IF entries[i][2] = Undef THEN RegistryRegisterEach(rs, entries, i + 1)
  ELSE LET r == RegistryRegister(rs, entries[i][1], entries[i][2]) IN
       IF r.ok THEN RegistryRegisterEach(r.st, entries, i + 1) ELSE r

\* Mutant of RegistryRegisterMany: all entries or none.
RegistryRegisterManyAtomic(rs, items) ==
  IF items.kind = "null" THEN RThrow(rs, "REGISTRY_ITEMS_NOT_NULL_OR_UNDEFINED")
  ELSE IF items.kind # "object" THEN RThrow(rs, "REGISTRY_ITEMS_NOT_OBJECT")
  ELSE IF RegistryRegisterEach(rs, items.entries, 1).ok
    THEN RegistryRegisterEach(rs, items.entries, 1)
    ELSE [RegistryRegisterEach(rs, items.entries, 1) EXCEPT !.st = rs]

\* registerMany(items); items is an object with its <<name, item>> properties
\* in creation order, or null, or an array.
RegistryRegisterMany(rs, items) ==
  IF items.kind = "null" THEN RThrow(rs, "REGISTRY_ITEMS_NOT_NULL_OR_UNDEFINED")
  ELSE IF items.kind # "object" THEN RThrow(rs, "REGISTRY_ITEMS_NOT_OBJECT")
  ELSE RegistryRegisterEach(rs, items.entries, 1)

\* unregister(name)
RegistryUnregister(rs, name) ==
  IF name = NoSymbol THEN RThrow(rs, "REGISTRY_NAME_NOT_EMPTY")
  ELSE RReturn(ClearCache([rs EXCEPT !.ITEMS = MapDelete(rs.ITEMS, String(name))]), NoResult)

RECURSIVE RegistryUnregisterEach(_, _, _)
\* The loop of unregisterMany from position i on.
RegistryUnregisterEach(rs, names, i) ==
  IF i > Len(names) THEN RReturn(rs, NoResult)
  ELSE LET r == RegistryUnregister(rs, names[i]) IN
       IF r.ok THEN RegistryUnregisterEach(r.st, names, i + 1) ELSE r

\* unregisterMany(names)
RegistryUnregisterMany(rs, names) ==
  IF names.kind = "null" THEN RThrow(rs, "REGISTRY_NAMES_NOT_NULL_OR_UNDEFINED")
  ELSE IF names.kind # "array" THEN RThrow(rs, "REGISTRY_NAMES_NOT_ARRAY")
  ELSE RegistryUnregisterEach(rs, names.items, 1)

\* clear()
RegistryClear(rs) == RReturn(ClearCache([rs EXCEPT !.ITEMS = << >>]), NoResult)

\* The names items are registered under, and a name whose description holds
\* the text that String and join put around and between descriptions.
SymA == Symbol(1, "a")

SymB == Symbol(2, "b")

Glued == Symbol(3, "a),Symbol(b")

RegistryNames == {SymA, SymB}

QueryNames == RegistryNames \cup {Glued}

\* A names argument: an array, or null, or a non-array object.
NameArray(kind, items) == [kind |-> kind, items |-> items]

NoNames == NameArray("array", << >>)

\* An items argument of registerMany: an object with its properties in
\* creation order, or null, or an array.
ItemRecord(kind, entries) == [kind |-> kind, entries |-> entries]

NoItems == ItemRecord("object", << >>)

\* The arguments of the registry calls of a run.
RegistryRegisterInputs == RegistryNames \X {I1, I2, Undef}

RegistryNameInputs == QueryNames \cup {NoSymbol}

QueryInputs ==
  {NameArray("array", s) : s \in {<<SymA, SymB>>, <<SymB, SymA>>, <<Glued>>}}
    \cup {NameArray("null", << >>), NameArray("object", << >>)}

ItemRecords ==
  {ItemRecord("object", << <<SymA, I1>>, <<SymB, I2>> >>),
   ItemRecord("object", << <<SymB, I1>>, <<SymA, Undef>> >>),
   ItemRecord("null", << >>),
   ItemRecord("array", << >>)}

\* The items arguments of the runs of registerMany: with three entries too.
ManyItemRecords ==
  ItemRecords \cup {ItemRecord("object", << <<SymA, I2>>, <<SymB, I1>>, <<Glued, I1>> >>),
                    ItemRecord("object", << <<SymA, Undef>>, <<SymB, I2>> >>)}

UnregisterManyInputs ==
  {NameArray("array", <<SymA, SymB>>), NameArray("array", <<SymB, NoSymbol>>), NameArray("null", << >>)}

RegistryCore == RSt(ITEMS, CACHE, nextRef)

\* The registry call op(name, item, names, items) had outcome r.
RegistryDone(op, name, item, names, items, r) ==
  /\ r.st.nextRef <= MaxRefs
  /\ ITEMS' = r.st.ITEMS
  /\ CACHE' = r.st.CACHE
  /\ nextRef' = r.st.nextRef
  /\ held' = IF op = "getAll" THEN [arr |-> r.val, stale |-> FALSE, quiet |-> TRUE]
             ELSE [held EXCEPT !.stale = @ \/ (op \in {"register", "unregister"} /\ r.ok)
                                           \/ r.st.ITEMS # ITEMS,
                               !.quiet = @ /\ op \in {"getMany", "get", "has"}]
  /\ called' = [op |-> op, name |-> name, item |-> item, names |-> names, items |-> items,
                pre |-> RegistryCore, held |-> held, ok |-> r.ok, val |-> r.val, exc |-> r.exc]
  /\ UNCHANGED <<containerVars, factoryVars>>

RegistryCallRegister ==
  \E in \in RegistryRegisterInputs :
    RegistryDone("register", in[1], in[2], NoNames, NoItems, RegistryRegister(RegistryCore, in[1], in[2]))

RegistryCallRegisterMany(records) ==
  \E items \in records :
    RegistryDone("registerMany", NoSymbol, Undef, NoNames, items, RegistryRegisterMany(RegistryCore, items))

RegistryCallUnregister ==
  \E name \in RegistryNameInputs :
    RegistryDone("unregister", name, Undef, NoNames, NoItems, RegistryUnregister(RegistryCore, name))

RegistryCallUnregisterMany ==
  \E names \in UnregisterManyInputs :
    RegistryDone("unregisterMany", NoSymbol, Undef, names, NoItems, RegistryUnregisterMany(RegistryCore, names))

RegistryCallClear ==
  RegistryDone("clear", NoSymbol, Undef, NoNames, NoItems, RegistryClear(RegistryCore))

RegistryCallGetAll ==
  RegistryDone("getAll", NoSymbol, Undef, NoNames, NoItems, RegistryGetAll(RegistryCore))

RegistryCallGetMany ==
  \E names \in QueryInputs :
    RegistryDone("getMany", NoSymbol, Undef, names, NoItems, RegistryGetMany(RegistryCore, names))

\* getMany(names) for the names arguments of a run.
RegistryCallGetManyOf(inputs) ==
  \E names \in inputs :
    RegistryDone("getMany", NoSymbol, Undef, names, NoItems, RegistryGetMany(RegistryCore, names))

\* An object of the caller that is not stored in the registry.
Foreign == Val("object", "Foreign", 0)

\* The array object arr with its elements replaced by items, as every holder
\* of the array sees it: the entries of CACHE that are this array change with
\* it.
Written(rs, arr, items) ==
  RReturn([rs EXCEPT !.CACHE = [k \in DOMAIN rs.CACHE |->
                                  IF rs.CACHE[k].ref = arr.ref THEN Array(arr.ref, items) ELSE rs.CACHE[k]]],
          Array(arr.ref, items))

\* The caller holds the array the last call returned.
HoldsArray == called.ok /\ called.op \in {"getAll", "getMany", "push", "pop"}

\* array.push(Foreign) on the array the last call returned.
CallerPush ==
  /\ HoldsArray
  /\ Len(called.val.items) < MaxArray
  /\ RegistryDone("push", NoSymbol, Foreign, NoNames, NoItems,
                  Written(RegistryCore, called.val, Append(called.val.items, Foreign)))

\* array.pop() on the array the last call returned.
CallerPop ==
  /\ HoldsArray
  /\ Len(called.val.items) > 0
  /\ RegistryDone("pop", NoSymbol, Undef, NoNames, NoItems,
                  Written(RegistryCore, called.val, SubSeq(called.val.items, 1, Len(called.val.items) - 1)))

\* Symbol("a") and Symbol("b") evaluated once more: new symbols with the
\* descriptions of SymA and SymB.
AgainA == Symbol(4, "a")

AgainB == Symbol(5, "b")

\* The register calls of the runs with two symbols per description: I1 comes
\* with the first symbols, I2 with the later ones.
AgainRegisterInputs == ({SymA, SymB} \X {I1}) \cup ({AgainA, AgainB} \X {I2})

AgainNames == {SymA, SymB, AgainA, AgainB}

RegistryCallRegisterAgain ==
  \E in \in AgainRegisterInputs :
    RegistryDone("register", in[1], in[2], NoNames, NoItems, RegistryRegister(RegistryCore, in[1], in[2]))

RegistryCallUnregisterAgain ==
  \E name \in AgainNames :
    RegistryDone("unregister", name, Undef, NoNames, NoItems, RegistryUnregister(RegistryCore, name))

RegistryCallGet ==
  \E name \in AgainNames \cup {NoSymbol} :
    RegistryDone("get", name, Undef, NoNames, NoItems, RReturn(RegistryCore, RegistryGet(RegistryCore, name)))

RegistryCallHas ==
  \E name \in AgainNames \cup {NoSymbol} :
    RegistryDone("has", name, Undef, NoNames, NoItems,
                 [st |-> RegistryCore, ok |-> RegistryHas(RegistryCore, name), val |-> NoResult, exc |-> NoExc])

\* ------------------------------------------------------------------ factory

\* No object: undefined where an object is looked for.
Nil == 0

\* A plain object { value, config }: value is a number and config is the
\* identity of a nested plain object, or Nil when the object has none.
Object(value, config) == [value |-> value, config |-> config]

\* The registry item that is the object with identity r.
Template(r) == Val("object", "template", r)

\* The caller's template objects, { value: 10, config: { value: 1 } } at 2
\* and { value: 30, config: { value: 0 } } at 4; a nested object comes first.
CallerObjects == << Object(1, Nil), Object(10, 1), Object(0, Nil), Object(30, 3) >>

Templates == {Template(2), Template(4)}

\* The identity of the class Widget of the tests: a function, which is no
\* object of the heap.
Widget == -1

\* typeof r === "function"
IsFunctionRef(r) == r < Nil

\* The registry item that is the class Widget.
WidgetClass == Val("class", "Widget", Widget)

\* The outcome of a step that makes objects: the heap after it and its result.
Made(h, r) == [heap |-> h, ref |-> r]

\* Mutant of SafeDeepClone: the nested object is shared with the source.
SafeDeepCloneShallow(h, r) ==
  IF r = Nil \/ IsFunctionRef(r) THEN Made(h, r)
  ELSE Made(Append(h, Object(h[r].value, h[r].config)), Len(h) + 1)

RECURSIVE SafeDeepClone(_, _)
\* safeDeepClone(source): what is no object, a function too, is returned as
\* it is; a plain object without functions gives a new object with the
\* primitive values copied and the nested objects cloned.
SafeDeepClone(h, r) ==
  IF r = Nil \/ IsFunctionRef(r) THEN Made(h, r)
  ELSE LET config == SafeDeepClone(h, h[r].config) IN
       Made(Append(config.heap, Object(h[r].value, config.ref)), Len(config.heap) + 1)

\* The transformer of the tests, (t) => ({ ...t, value: t.value * 2 }): a new
\* object with the fields of t, its nested object included as it is.
Double(h, r) == Made(Append(h, Object(h[r].value * 2, h[r].config)), Len(h) + 1)

\* this.TRANSFORMER(template)
Transform(h, transformer, r) == Double(h, r)

\* The transformer option of a factory.
Transformers == {"none", "double"}

\* this.CACHE.get(name)
FactoryCacheGet(cache, name) == IF name \in DOMAIN cache THEN cache[name] ELSE Nil

\* this.CACHE.delete(name)
FactoryCacheDelete(cache, name) == [k \in DOMAIN cache \ {name} |-> cache[k]]

\* The empty factory cache.
NoCached == << >>

\* The outcome of a factory call: the heap, the factory's cache and the
\* registry after it, what it returned or raised, and whether it queried
\* the registry and ran the transformer.
FOut(h, cache, rs, ok, ref, exc, queried, transformed) ==
  [heap |-> h, cache |-> cache, rs |-> rs, ok |-> ok, ref |-> ref, exc |-> exc,
   queried |-> queried, transformed |-> transformed]

\* What create does with the result made from the template: it is cached and
\* a clone of it is returned.
CacheAndClone(result, cache, rs, name, transformed) ==
  LET clone == SafeDeepClone(result.heap, result.ref) IN
  FOut(clone.heap, CacheSet(cache, name, result.ref), rs, TRUE, clone.ref, NoExc, TRUE, transformed)

\* Mutant of FromTemplate: a name without a template gives undefined.
FromTemplateQuiet(h, cache, transformer, rs, name, template) ==
  IF template = Undef
    THEN FOut(h, cache, rs, TRUE, Nil, NoExc, TRUE, FALSE)
  ELSE IF transformer # "none"
    THEN CacheAndClone(Transform(h, transformer, template.id), cache, rs, name, TRUE)
    ELSE CacheAndClone(SafeDeepClone(h, template.id), cache, rs, name, FALSE)

\* What create does with the template the registry gave.
FromTemplate(h, cache, transformer, rs, name, template) ==
  IF template = Undef
    THEN FOut(h, cache, rs, FALSE, Nil, BaseError("TEMPLATE_NOT_FOUND", NoToken, -1, ""), TRUE, FALSE)
  ELSE IF transformer # "none"
    THEN CacheAndClone(Transform(h, transformer, template.id), cache, rs, name, TRUE)
    ELSE CacheAndClone(SafeDeepClone(h, template.id), cache, rs, name, FALSE)

\* Mutant of FactoryCreate: the registry is asked every time.
FactoryCreateNoCache(h, cache, transformer, rs, name) ==
  FromTemplate(h, cache, transformer, rs, name, RegistryGet(rs, name))

\* Mutant of FactoryCreate: a cached value is used only while the registry
\* still holds the name.
FactoryCreateChecked(h, cache, transformer, rs, name) ==
  LET cachedItem == FactoryCacheGet(cache, name) IN
  IF cachedItem # Nil /\ RegistryHas(rs, name)
    THEN LET clone == SafeDeepClone(h, cachedItem) IN
         FOut(clone.heap, cache, rs, TRUE, clone.ref, NoExc, FALSE, FALSE)
    ELSE FromTemplate(h, cache, transformer, rs, name, RegistryGet(rs, name))

\* create(name)
FactoryCreate(h, cache, transformer, rs, name) ==
  LET cachedItem == FactoryCacheGet(cache, name) IN
  IF cachedItem # Nil
    THEN LET clone == SafeDeepClone(h, cachedItem) IN
         FOut(clone.heap, cache, rs, TRUE, clone.ref, NoExc, FALSE, FALSE)
    ELSE FromTemplate(h, cache, transformer, rs, name, RegistryGet(rs, name))

\* Mutant of FactoryClearCache: every call clears the whole cache.
FactoryClearCacheAll(h, cache, rs, name) ==
  FOut(h, NoCached, rs, TRUE, Nil, NoExc, FALSE, FALSE)

\* clearCache(name?); NoSymbol stands for a call without a name.
FactoryClearCache(h, cache, rs, name) ==
  IF name # NoSymbol
    THEN FOut(h, FactoryCacheDelete(cache, name), rs, TRUE, Nil, NoExc, FALSE, FALSE)
    ELSE FOut(h, NoCached, rs, TRUE, Nil, NoExc, FALSE, FALSE)

RECURSIVE Snapshot(_, _)
\* What the object r looks like: its value and what its nested object looks
\* like; two objects are deep-equal when they look the same.
Snapshot(h, r) ==
  IF r = Nil THEN << >>
  ELSE IF IsFunctionRef(r) THEN <<r>>
  ELSE <<h[r].value, Snapshot(h, h[r].config)>>

RECURSIVE Reach(_, _)
\* The objects that make up the object r: r and its nested objects.
Reach(h, r) ==
  IF r = Nil THEN {}
  ELSE IF IsFunctionRef(r) THEN {r}
  ELSE {r} \cup Reach(h, h[r].config)

\* The names create and clearCache are called with.
TemplateNames == {SymA, SymB}

\* The register calls of the runs of the factory.
TemplateInputs == {<<SymA, Template(2)>>, <<SymA, Template(4)>>, <<SymB, Template(4)>>}

\* The value a caller writes into a field of an object create gave it.
Mutated == 99

\* The history of a name that has nothing cached.
NoSpan == [queries |-> 0, found |-> 0, transforms |-> 0, first |-> << >>, from |-> << >>]

\* A count of at most two: none, one, more than one.
Counted(n, happened) == IF happened /\ n < 2 THEN n + 1 ELSE n

\* The history after the factory call op(name) with outcome r.
SpanAfter(op, name, r) ==
  IF op = "clearCache"
    THEN [n \in TemplateNames |->
            IF FactoryCacheGet(r.cache, n) = Nil THEN NoSpan
            ELSE [span[n] EXCEPT !.queries = 0, !.found = 0, !.transforms = 0]]
    ELSE [span EXCEPT ![name] =
            [queries |-> Counted(@.queries, r.queried),
             found |-> Counted(@.found, r.queried /\ r.ok),
             transforms |-> Counted(@.transforms, r.transformed),
             first |-> IF r.ok /\ @.first = << >> THEN Snapshot(r.heap, r.ref) ELSE @.first,
             from |-> IF r.ok /\ r.queried
                        THEN Snapshot(heap, RegistryGet(RegistryCore, name).id) ELSE @.from]]

\* The factory call op(name, ...args) had outcome r.
FactoryDoneWith(op, name, args, r) ==
  /\ Len(r.heap) <= MaxCells
  /\ heap' = r.heap
  /\ FACTORY_CACHE' = r.cache
  /\ ITEMS' = r.rs.ITEMS
  /\ CACHE' = r.rs.CACHE
  /\ nextRef' = r.rs.nextRef
  /\ given' = IF op = "create" /\ r.ok THEN <<r.ref, given[1]>> ELSE given
  /\ created' = [op |-> op, name |-> name, args |-> args,
                 pre |-> [heap |-> heap, cache |-> FACTORY_CACHE, rs |-> RegistryCore],
                 post |-> [heap |-> r.heap, cache |-> r.cache, rs |-> r.rs],
                 ok |-> r.ok, ref |-> r.ref, exc |-> r.exc,
                 queried |-> r.queried, transformed |-> r.transformed]
  /\ span' = SpanAfter(op, name, r)
  /\ UNCHANGED <<containerVars, held, called, TRANSFORMER>>

\* The factory call op(name) had outcome r.
FactoryDone(op, name, r) == FactoryDoneWith(op, name, << >>, r)

\* The arguments a caller passes after the name.
ArgumentLists == {<<1>>, <<1, 2>>, <<2, 1>>}

\* create(name, ...args): create declares name alone, and what is passed
\* after it goes nowhere.
FactoryCallCreateWith ==
  \E name \in TemplateNames, args \in ArgumentLists :
    FactoryDoneWith("create", name, args,
                    FactoryCreate(heap, FACTORY_CACHE, TRANSFORMER, RegistryCore, name))

FactoryCallCreate ==
  \E name \in TemplateNames :
    FactoryDone("create", name, FactoryCreate(heap, FACTORY_CACHE, TRANSFORMER, RegistryCore, name))

FactoryCallClearCache ==
  \E name \in TemplateNames \cup {NoSymbol} :
    FactoryDone("clearCache", name, FactoryClearCache(heap, FACTORY_CACHE, RegistryCore, name))

\* new BaseFactory({ registry, transformer })
NewFactory ==
  \E transformer \in Transformers :
    /\ TRANSFORMER' = transformer
    /\ FACTORY_CACHE' = NoCached
    /\ span' = [n \in TemplateNames |-> NoSpan]
    /\ created' = [op |-> "new", name |-> NoSymbol, args |-> << >>,
                   pre |-> [heap |-> heap, cache |-> FACTORY_CACHE, rs |-> RegistryCore],
                   post |-> [heap |-> heap, cache |-> NoCached, rs |-> RegistryCore],
                   ok |-> TRUE, ref |-> Nil, exc |-> NoExc, queried |-> FALSE, transformed |-> FALSE]
    /\ UNCHANGED <<containerVars, registryVars, heap, given>>

\* The registry call of a run of the factory had outcome r.
TemplatesDone(r) ==
  /\ r.st.nextRef <= MaxRefs
  /\ ITEMS' = r.st.ITEMS
  /\ CACHE' = r.st.CACHE
  /\ nextRef' = r.st.nextRef
  /\ UNCHANGED <<containerVars, held, called, factoryVars>>

\* The caller registers a template, removes one, removes all, or asks for all.
RegisterTemplate ==
  \E in \in TemplateInputs : TemplatesDone(RegistryRegister(RegistryCore, in[1], in[2]))

\* The caller registers the class Widget.
RegisterConstructor ==
  \E name \in TemplateNames : TemplatesDone(RegistryRegister(RegistryCore, name, WidgetClass))

UnregisterTemplate ==
  \E name \in TemplateNames : TemplatesDone(RegistryUnregister(RegistryCore, name))

ClearTemplates == TemplatesDone(RegistryClear(RegistryCore))

GetAllTemplates == TemplatesDone(RegistryGetAll(RegistryCore))

\* The caller writes into a field of the object that the last create
\* returned, or of the object nested in it.
Mutate ==
  \E r \in Reach(heap, given[1]) :
    /\ heap[r].value # Mutated
    /\ heap' = [heap EXCEPT ![r].value = Mutated]
    /\ created' = [op |-> "mutate", name |-> NoSymbol, args |-> << >>,
                   pre |-> [heap |-> heap, cache |-> FACTORY_CACHE, rs |-> RegistryCore],
                   post |-> [heap |-> heap', cache |-> FACTORY_CACHE, rs |-> RegistryCore],
                   ok |-> TRUE, ref |-> r, exc |-> NoExc, queried |-> FALSE, transformed |-> FALSE]
    /\ UNCHANGED <<containerVars, registryVars, FACTORY_CACHE, TRANSFORMER, given, span>>

Empty == [c \in Containers |-> [t \in Tokens |-> Absent]]

\* The state after new BaseContainer({ name }) for each name, and after
\* new BaseRegistry().
Init ==
  /\ deps = Empty
  /\ directory = [n \in Names |-> n]
  /\ containers = {directory[n] : n \in Names}
  /\ nextId = 0
  /\ reg = Empty
  /\ memo = Empty
  /\ last = [op |-> "new", c |-> NoContainer, t |-> NoToken, impl |-> Absent, tokens |-> NoArray,
             implementations |-> NoRecord,
             pre |-> [deps |-> Empty, reg |-> Empty, memo |-> Empty, nextId |-> 0],
             ok |-> TRUE, val |-> Undef, vals |-> << >>, exc |-> NoExc, ev |-> << >>,
             name |-> NoName, dir |-> [n \in Names |-> n], made |-> {}]
  /\ ITEMS = << >>
  /\ CACHE = NoCache
  /\ nextRef = 0
  /\ held = [arr |-> NoResult, stale |-> FALSE, quiet |-> TRUE]
  /\ called = [op |-> "new", name |-> NoSymbol, item |-> Undef, names |-> NoNames, items |-> NoItems,
               pre |-> RSt(<< >>, NoCache, 0), held |-> [arr |-> NoResult, stale |-> FALSE, quiet |-> TRUE],
               ok |-> TRUE, val |-> NoResult, exc |-> NoExc]
  /\ heap = CallerObjects
  /\ FACTORY_CACHE = NoCached
  /\ TRANSFORMER = "none"
  /\ given = <<Nil, Nil>>
  /\ created = [op |-> "new", name |-> NoSymbol, args |-> << >>,
                pre |-> [heap |-> CallerObjects, cache |-> NoCached, rs |-> RSt(<< >>, NoCache, 0)],
                post |-> [heap |-> CallerObjects, cache |-> NoCached, rs |-> RSt(<< >>, NoCache, 0)],
                ok |-> TRUE, ref |-> Nil, exc |-> NoExc, queried |-> FALSE, transformed |-> FALSE]
  /\ span = [n \in TemplateNames |-> NoSpan]

\* Runs of the single-token operations, over every implementation.
Next ==
  \/ CallRegister(RegisterInputs)
  \/ CallGet
  \/ CallHas
  \/ CallUnregister
  \/ CallClear

Spec == Init /\ [][Next]_vars

\* Runs of the bulk operations.
NextMany ==
  \/ CallRegister(BulkRegisterInputs)
  \/ CallGetMany
  \/ CallRegisterMany
  \/ CallUnregister
  \/ CallUnregisterMany

SpecMany == Init /\ [][NextMany]_vars

\* Runs of resolve across containers, with containers constructed and
\* removed from the directory on the way.
NextResolve ==
  \/ CallRegisterOn(ResolveRegisterInputs)
  \/ CallResolve
  \/ NewContainer
  \/ DirectoryUnregister

SpecResolve == Init /\ [][NextResolve]_vars

\* The register calls of the runs with cycles: a value, classes with and
\* without injected tokens, and arrow functions that get a token or throw.
CycleRegisterInputs ==
  Tokens \X {O1, Class("K0"), Class("K1"), Class("KPlain"), Arrow("FGet2"), Arrow("FErr")}

\* Runs of get and of direct resolve over registrations that depend on
\* themselves or on each other, and over ones that do not.
NextCycle ==
  \/ CallRegister(CycleRegisterInputs)
  \/ CallGet
  \/ CallResolve
  \/ CallUnregister

SpecCycle == Init /\ [][NextCycle]_vars

\* The register calls of the runs of every operation.
EveryRegisterInputs == (Tokens \X {O1}) \cup {<<"T1", Class("K0")>>}

\* The token arrays and the registerMany calls of those runs.
EveryTokenArrays == {TokenArray("array", <<"T1">>), TokenArray("array", <<"T2", "T1">>)}

EveryRegisterManyInputs ==
  {<<TokenArray("array", <<"T1", "T2">>), ImplRecord("object", [t \in Tokens |-> O1])>>,
   <<TokenArray("array", <<"T2">>), ImplRecord("object", [t \in Tokens |-> O1])>>}

\* Runs of every operation of a container, with containers constructed and
\* removed from the directory on the way.
NextDirectory ==
  \/ CallRegister(EveryRegisterInputs)
  \/ CallRegisterManyOf(EveryRegisterManyInputs)
  \/ CallGet
  \/ CallGetManyOf(EveryTokenArrays)
  \/ CallGetAll
  \/ CallHas
  \/ CallResolve
  \/ CallUnregister
  \/ CallUnregisterManyOf(EveryTokenArrays)
  \/ CallClear
  \/ NewContainer
  \/ DirectoryUnregister

SpecDirectory == Init /\ [][NextDirectory]_vars

\* The register calls of the runs with arrow functions that call their own
\* container.
ReentrantRegisterInputs ==
  ({"T1"} \X {Arrow("FUnreg"), Arrow("FClear"), Arrow("FReg2"), Arrow("FGet2")})
    \cup ({"T2"} \X {O1, Arrow("FNew"), Class("K0"), Arrow("FUnreg")})

\* Runs of get over arrow functions that unregister, clear, register or get
\* on the container that runs them.
NextReentrant ==
  \/ CallRegister(ReentrantRegisterInputs)
  \/ CallGet
  \/ CallHas
  \/ CallUnregister

SpecReentrant == Init /\ [][NextReentrant]_vars

\* The register calls of the runs with failing resolutions: under T1 of A a
\* class whose two parameters are tokens of B, a class with one parameter, or
\* a factory that gets T2; in B and under T2 of A classes, a value, a
\* throwing constructor, a throwing factory.
FailingRegisterInputs ==
  ({"A"} \X {"T1"} \X {Class("KB"), Class("K1"), Arrow("FGet2")})
    \cup ({"A"} \X {"T2"} \X {Class("K0"), Class("KThrow")})
    \cup ({"B"} \X {"T1"} \X {Class("K0"), O1})
    \cup ({"B"} \X {"T2"} \X {O1, Arrow("FErr"), Class("KThrow")})

\* Runs of get over resolutions that fail part of the way.
NextFailing ==
  \/ CallRegisterOn(FailingRegisterInputs)
  \/ CallGet
  \/ CallUnregister

SpecFailing == Init /\ [][NextFailing]_vars

\* Runs of getAll over values, classes and arrow functions, resolved or not.
NextGetAll ==
  \/ CallRegister(CycleRegisterInputs)
  \/ CallGet
  \/ CallGetAll
  \/ CallUnregister

SpecGetAll == Init /\ [][NextGetAll]_vars

\* Runs of a registry.
NextRegistry ==
  \/ RegistryCallRegister
  \/ RegistryCallRegisterMany(ItemRecords)
  \/ RegistryCallUnregister
  \/ RegistryCallUnregisterMany
  \/ RegistryCallClear
  \/ RegistryCallGetAll
  \/ RegistryCallGetMany

SpecRegistry == Init /\ [][NextRegistry]_vars

\* Runs of the registry's bulk registration.
NextRegistryMany ==
  \/ RegistryCallRegister
  \/ RegistryCallRegisterMany(ManyItemRecords)
  \/ RegistryCallUnregister
  \/ RegistryCallGetMany

SpecRegistryMany == Init /\ [][NextRegistryMany]_vars

\* Runs of the registry's single-name operations with two symbols per
\* description.
NextRegistryNames ==
  \/ RegistryCallRegisterAgain
  \/ RegistryCallUnregisterAgain
  \/ RegistryCallGet
  \/ RegistryCallHas
  \/ RegistryCallGetAll

SpecRegistryNames == Init /\ [][NextRegistryNames]_vars

\* Runs of the queries with a caller that changes the arrays it receives.
NextShared ==
  \/ RegistryCallRegisterMany({ItemRecord("object", << <<SymA, I1>> >>),
                               ItemRecord("object", << <<SymB, I2>> >>)})
  \/ RegistryCallGetAll
  \/ RegistryCallGetManyOf({NameArray("array", <<SymB, SymA>>)})
  \/ CallerPush
  \/ CallerPop

SpecShared == Init /\ [][NextShared]_vars

\* Runs of a factory without a transformer over a registry of templates that
\* changes under it, with a caller that writes into what it is given.
NextFactory ==
  \/ FactoryCallCreate
  \/ FactoryCallClearCache
  \/ Mutate
  \/ RegisterTemplate
  \/ UnregisterTemplate
  \/ ClearTemplates

SpecFactory == Init /\ [][NextFactory]_vars

\* Runs of factories with and without a transformer.
NextTransformer ==
  \/ NewFactory
  \/ FactoryCallCreate
  \/ FactoryCallClearCache
  \/ RegisterTemplate
  \/ UnregisterTemplate

SpecTransformer == Init /\ [][NextTransformer]_vars

\* Runs of a factory over a registry that holds a class.
NextConstructor ==
  \/ RegisterConstructor
  \/ UnregisterTemplate
  \/ FactoryCallCreateWith
  \/ FactoryCallClearCache

SpecConstructor == Init /\ [][NextConstructor]_vars

\* Runs of the factory's cache clearing over a registry that caches its queries.
NextFactoryCache ==
  \/ NewFactory
  \/ FactoryCallCreate
  \/ FactoryCallClearCache
  \/ RegisterTemplate
  \/ GetAllTemplates

SpecFactoryCache == Init /\ [][NextFactoryCache]_vars

\* ------------------------------------------------------------------ properties

\* The state before the last call, as the argument of the operators.
Before == St(last.pre.deps, last.pre.nextId, last.pre.reg, last.pre.memo, << >>)

\* The state now, as the argument of the operators.
Now == St(deps, nextId, reg, memo, << >>)

\* The last call left the containers and the object counter as they were.
NothingChanged == Core = last.pre

\* The last call was op on a real token.
Called(op) == last.op = op /\ last.t \in Tokens

\* What the token of the last call was registered with, and what its first
\* successful get had returned, before the call.
WasRegisteredAs == last.pre.reg[last.c][last.t]

WasResolvedTo == last.pre.memo[last.c][last.t]

\* Number of objects the constructor of class n returned during the last call.
Instantiations(n) ==
  Cardinality({i \in 1..Len(last.ev) :
                 last.ev[i].e = "new" /\ last.ev[i].who.k = "instance" /\ last.ev[i].who.name = n})

\* C1: a get of a token registered with a plain (non-callable) value returns
\* that very value and changes no container state, until the token is
\* unregistered or the container cleared.
C1_PlainValueReturned ==
  (Called("get") /\ WasRegisteredAs # Absent /\ ~IsFunction(WasRegisteredAs))
    => (last.ok /\ last.val = WasRegisteredAs /\ NothingChanged)

\* C2: register on a token that is registered fails with the
\* duplicate-registration error and changes nothing: the token keeps its
\* entry and the second value is not stored.
C2_DuplicateRejected ==
  (Called("register") /\ WasRegisteredAs # Absent)
    => /\ ~last.ok
       /\ last.exc = BaseError("CONTAINER_DEPENDENCY_ALREADY_EXISTS", last.t, -1, "")
       /\ NothingChanged

\* C2 witness: a register was rejected on a token whose constructor had
\* already been resolved to an instance.
C2_Witness ==
  /\ Called("register") /\ ~last.ok
  /\ IsInjectableConstructor(WasRegisteredAs)
  /\ WasResolvedTo.k = "instance"
  /\ last.impl # WasRegisteredAs

\* C3: for a token registered with an injectable constructor, the first
\* successful get instantiates the class exactly once and every later get
\* returns that same instance without instantiating anything; a get that
\* fails has produced no instance of the class.
C3_ConstructorSingleton ==
  (Called("get") /\ IsInjectableConstructor(WasRegisteredAs))
    => /\ (WasResolvedTo # Absent)
            => (last.ok /\ last.val = WasResolvedTo /\ last.ev = << >> /\ NothingChanged)
       /\ (WasResolvedTo = Absent /\ last.ok)
            => /\ Instantiations(WasRegisteredAs.name) = 1
               /\ last.val.k = "instance" /\ last.val.name = WasRegisteredAs.name
               /\ last.val.id >= last.pre.nextId
               /\ memo[last.c][last.t] = last.val
               /\ deps[last.c][last.t] = last.val
       /\ (WasResolvedTo = Absent /\ ~last.ok)
            => (Instantiations(WasRegisteredAs.name) = 0 /\ memo[last.c][last.t] = Absent)

\* C3 witness: a second get of a class with a dependency returned the
\* instance of the first.
C3_Witness ==
  /\ Called("get") /\ last.ok
  /\ WasRegisteredAs = Class("K1")
  /\ WasResolvedTo # Absent
  /\ last.val = WasResolvedTo

\* C4: for a token registered with a dynamic factory, every get after the
\* first successful one returns the value the factory returned then and
\* invokes nothing.
C4_FactoryOnce ==
  (Called("get") /\ IsDynamicFactory(WasRegisteredAs) /\ WasResolvedTo # Absent)
    => (last.ok /\ last.val = WasResolvedTo /\ last.ev = << >>)

EntryBefore == last.pre.deps[last.c][last.t]

RECURSIVE FailingParameter(_, _, _)
\* The first parameter position of class K, from index on, whose token the
\* owning container cannot resolve in state st, with the error its get raised.
FailingParameter(st, K, index) ==
  LET meta == ClassMeta[K.name]
      token == InjGet(meta.inj, index)
      r == Get(st, directory, DirectoryGet(directory, meta.owner), token, MaxDepth - 2)
  IN IF index >= meta.paramtypes \/ token = NoToken
       THEN [found |-> FALSE, index |-> index, token |-> NoToken, exc |-> NoExc]
     ELSE IF r.ok THEN FailingParameter(r.st, K, index + 1)
     ELSE [found |-> TRUE, index |-> index, token |-> token, exc |-> r.exc]

\* What the dynamic factory held by the token of the last call did when run
\* in the state before the call.
FactoryOutcome == CallFactory(Before, directory, last.c, EntryBefore, MaxDepth - 1)

\* C6, constructors: when parameter i of the class, with token d, cannot be
\* resolved, get raises DependencyResolutionFailed for its token, caused by
\* DependencyResolutionFailed naming i and d, caused by the error get(d) raised.
C6_ConstructorChain ==
  (Called("get") /\ IsInjectableConstructor(EntryBefore)
     /\ DirectoryGet(directory, ClassMeta[EntryBefore.name].owner) # NoContainer)
    => LET f == FailingParameter(Before, EntryBefore, 0) IN
       f.found =>
         /\ ~last.ok
         /\ last.exc.isError
         /\ last.exc.chain =
              << Link("CONTAINER_DEPENDENCY_RESOLUTION_FAILED", last.t, -1, ""),
                 Link("CONTAINER_DEPENDENCY_RESOLUTION_FAILED", f.token, f.index, EntryBefore.name) >>
                \o f.exc.chain

\* C6 as claimed: when a dynamic factory throws e, get raises
\* FactoryExecutionFailed whose cause is e, whatever e is; and the
\* constructor chain.
C6_CauseIsThrownValue ==
  /\ (Called("get") /\ IsDynamicFactory(EntryBefore) /\ ~FactoryOutcome.ok)
       => /\ ~last.ok
          /\ last.exc.chain =
               << Link("CONTAINER_FACTORY_EXECUTION_FAILED", last.t, -1, "") >> \o FactoryOutcome.exc.chain
  /\ C6_ConstructorChain

\* C6 amended: when a dynamic factory throws e, get raises
\* FactoryExecutionFailed whose cause is e if e is an Error and which has no
\* cause if e is not an Error; and the constructor chain.
C6_CauseIsThrownError ==
  /\ (Called("get") /\ IsDynamicFactory(EntryBefore) /\ ~FactoryOutcome.ok)
       => /\ ~last.ok
          /\ last.exc.isError
          /\ last.exc.chain =
               << Link("CONTAINER_FACTORY_EXECUTION_FAILED", last.t, -1, "") >>
                 \o (IF FactoryOutcome.exc.isError THEN FactoryOutcome.exc.chain ELSE << >>)
  /\ C6_ConstructorChain

\* C6 witness: the get of a class failed because the factory behind its
\* parameter token threw an Error: a chain of four errors.
C6_Witness ==
  /\ Called("get") /\ ~last.ok
  /\ EntryBefore = Class("K1")
  /\ Len(last.exc.chain) = 4
  /\ last.exc.chain[2].index = 0 /\ last.exc.chain[2].token = "T2"
  /\ last.exc.chain[3].code = "CONTAINER_FACTORY_EXECUTION_FAILED"
  /\ last.exc.chain[4].code = "USER_ERROR"

Listed == {last.tokens.items[i] : i \in 1..Len(last.tokens.items)}

\* C8: unregister of a token that is not registered raises nothing and
\* changes nothing; unregisterMany removes exactly the listed tokens that
\* are present and leaves every other entry as it was.
C8_UnregisterIdempotent ==
  /\ (Called("unregister") /\ WasRegisteredAs = Absent) => (last.ok /\ NothingChanged)
  /\ (last.op = "unregisterMany" /\ last.tokens.kind = "array") =>
       /\ last.ok
       /\ nextId = last.pre.nextId
       /\ \A c \in Containers, t \in Tokens :
            deps[c][t] = IF c = last.c /\ t \in Listed THEN Absent ELSE last.pre.deps[c][t]

\* C8 witness: unregisterMany was given a present and an absent token.
C8_Witness ==
  /\ last.op = "unregisterMany" /\ last.ok
  /\ \E t \in Listed : last.pre.deps[last.c][t] # Absent
  /\ \E t \in Listed : last.pre.deps[last.c][t] = Absent

\* C9: getMany raises the error of the first token whose get fails, or
\* returns one element per token, in order, element i being what
\* get(tokens[i]) returned.
C9_GetManyStrict ==
  (last.op = "getMany" /\ last.tokens.kind = "array")
    => LET r == GetEach(Before, directory, last.c, last.tokens.items, 1, << >>) IN
       IF r.ok
         THEN last.ok /\ last.vals = r.val /\ Len(last.vals) = Len(last.tokens.items)
         ELSE ~last.ok /\ last.exc = r.exc

\* C10: after registerMany returns, every listed token with a key in
\* implementations is registered with implementations[token] and every
\* listed token without a key is as it was.
C10_RegisterManyRegisters ==
  (last.op = "registerMany" /\ last.ok)
    => \A t \in Listed :
         deps[last.c][t] =
           IF last.implementations.map[t] # Absent
             THEN last.implementations.map[t]
             ELSE last.pre.deps[last.c][t]

\* Number of entries of the call log of the last call with tag e.
Logged(e) == Cardinality({i \in 1..Len(last.ev) : last.ev[i].e = e})

\* C11: no operation swallows an error: when a nested register, get,
\* resolve, factory call or constructor call raises inside registerMany,
\* getMany or get, the operation raises too, and nothing is attempted twice.
C11_NoErrorSwallowed ==
  /\ (last.op = "registerMany" /\ last.tokens.kind = "array" /\ last.implementations.kind = "object") =>
       /\ (\E i \in 1..Len(last.tokens.items) :
             LET t == last.tokens.items[i] IN
             /\ last.implementations.map[t] # Absent
             /\ ~Register(Before, last.c, t, last.implementations.map[t]).ok) => ~last.ok
       /\ Len(last.ev) <= Len(last.tokens.items)
  /\ (last.op = "getMany" /\ last.tokens.kind = "array") =>
       /\ ~GetEach(Before, directory, last.c, last.tokens.items, 1, << >>).ok => ~last.ok
       /\ Logged("call") + Logged("new") <= Len(last.tokens.items)
  /\ (Called("get") /\ IsDynamicFactory(EntryBefore) /\ ~FactoryOutcome.ok) => ~last.ok
  /\ (Called("get") /\ IsInjectableConstructor(EntryBefore)
        /\ ~Resolve(Before, directory, last.c, EntryBefore, MaxDepth - 1).ok) => ~last.ok

\* The last call, a direct resolve, was given this class.
ResolvedClass == last.impl

\* The last call left every container, the object counter and the directory
\* as they were.
NothingChangedAnywhere == NothingChanged /\ directory = last.dir /\ containers = last.made

\* C12: resolve(C) raises ClassNotInjectable when C has no owning-container
\* name and ContainerNotFound when the directory holds no container under the
\* name (never constructed, or unregistered from the directory); in both
\* cases no token is resolved, C is not instantiated and nothing changes.
C12_ResolveGuards ==
  last.op = "resolve" =>
    LET owner == ClassMeta[ResolvedClass.name].owner IN
    /\ owner = NoName =>
         /\ ~last.ok
         /\ last.exc = BaseError("CONTAINER_CLASS_NOT_INJECTABLE", NoToken, -1, ResolvedClass.name)
         /\ last.ev = << >>
         /\ NothingChangedAnywhere
    /\ (owner # NoName /\ owner \notin DOMAIN last.dir) =>
         /\ ~last.ok
         /\ last.exc = BaseError("CONTAINER_INSTANCE_NOT_FOUND", NoToken, -1, ResolvedClass.name)
         /\ last.ev = << >>
         /\ NothingChangedAnywhere
    /\ (owner # NoName /\ owner \in DOMAIN last.dir) =>
         (~last.ok => last.exc.chain[1].code \notin {"CONTAINER_CLASS_NOT_INJECTABLE", "CONTAINER_INSTANCE_NOT_FOUND"})

\* C12 witness: resolve of a class of container B failed with
\* ContainerNotFound after B, holding both tokens, was unregistered from the
\* directory.
C12_Witness ==
  /\ last.op = "resolve" /\ ~last.ok
  /\ ResolvedClass = Class("KB")
  /\ "B" \notin DOMAIN directory /\ "B" \in containers
  /\ \A t \in Tokens : deps["B"][t] # Absent
  /\ last.exc.chain[1].code = "CONTAINER_INSTANCE_NOT_FOUND"

\* The parameter positions the metadata of class K tells of: those of
\* design:paramtypes, or, without it, those up to the last decorated one.
Positions(K) ==
  LET meta == ClassMeta[K.name] IN
  IF meta.paramtypes > 0 THEN 0..(meta.paramtypes - 1)
  ELSE IF meta.hasInj /\ Len(meta.inj) > 0 THEN 0..(ParameterCount(meta.inj) - 1)
  ELSE {}

\* The positions of class K without an injection token.
Undecorated(K) == {i \in Positions(K) : InjGet(ClassMeta[K.name].inj, i) = NoToken}

\* C13: partial annotation is rejected: when a parameter position of C has
\* no injection token, resolve raises (a missing-injection error, unless the
\* token of another position failed first) and C is not instantiated; C
\* is instantiated only when every position has a token and it resolved.
C13_PartialAnnotationRejected ==
  (last.op = "resolve" /\ ClassMeta[ResolvedClass.name].owner \in DOMAIN last.dir) =>
    /\ Undecorated(ResolvedClass) # {} =>
         /\ ~last.ok
         /\ Instantiations(ResolvedClass.name) = 0
         /\ \/ last.exc.chain[1].code \in
                 {"CONTAINER_MISSING_INJECT_DECORATOR", "CONTAINER_MISSING_INJECTION_METADATA"}
            \/ last.exc.chain[1].code = "CONTAINER_DEPENDENCY_RESOLUTION_FAILED"
    /\ Instantiations(ResolvedClass.name) > 0 =>
         \A i \in Positions(ResolvedClass) :
           \E j \in 1..Len(last.ev) :
             /\ last.ev[j].e = "inject"
             /\ last.ev[j].t = InjGet(ClassMeta[ResolvedClass.name].inj, i)

\* The container the directory held under the owner name of class K when
\* the last call was made.
OwningContainer(K) ==
  LET owner == ClassMeta[K.name].owner
  IN IF owner \in DOMAIN last.dir THEN last.dir[owner] ELSE NoContainer

\* The arguments the constructor of the resolved class was called with.
ConstructorArgs ==
  LET hits == {j \in 1..Len(last.ev) :
                 last.ev[j].e = "new" /\ last.ev[j].who.name = ResolvedClass.name}
  IN last.ev[CHOOSE j \in hits : TRUE].args

\* C14: resolve(C) called on one container for a class C of another
\* resolves every injection token with get of the owning container: a token
\* the owning container lacks makes resolve fail even if the calling
\* container has it, the values injected are those of the owning container,
\* and only the owning container memoizes nested dependencies.
C14_OwningContainerResolves ==
  (last.op = "resolve" /\ OwningContainer(ResolvedClass) # NoContainer) =>
    LET target == OwningContainer(ResolvedClass)
        inj == ClassMeta[ResolvedClass.name].inj
    IN
    /\ \A j \in 1..Len(last.ev) :
         last.ev[j].e = "inject" => last.ev[j].c = OwningContainer(last.ev[j].who)
    /\ \A c \in Containers \ {target} : deps[c] = last.pre.deps[c]
    /\ \A t \in Tokens :
         deps[target][t] # last.pre.deps[target][t] =>
           /\ IsFunction(last.pre.deps[target][t])
           /\ \E j \in 1..Len(last.ev) : last.ev[j].e = "inject" /\ last.ev[j].t = t
    /\ (Undecorated(ResolvedClass) = {}
          /\ \E i \in Positions(ResolvedClass) : ~Has(last.pre.deps, target, InjGet(inj, i)))
         => ~last.ok
    /\ last.ok =>
         \A i \in Positions(ResolvedClass) :
           InjGet(inj, i) # NoToken => ConstructorArgs[i + 1] = deps[target][InjGet(inj, i)]

\* C14 witness: resolve on A of a class of B succeeded with the instance B
\* made for T1, although A holds a plain object under T1 and nothing under
\* T2; the instance was memoized in B.
C14_Witness ==
  /\ last.op = "resolve" /\ last.ok /\ last.c = "A"
  /\ ResolvedClass = Class("KB")
  /\ OwningContainer(ResolvedClass) = "B"
  /\ last.pre.deps["A"]["T1"] = O1 /\ last.pre.deps["A"]["T2"] = Absent
  /\ last.pre.deps["B"]["T1"] = Class("K0")
  /\ deps["B"]["T1"] = Instance("K0", last.pre.nextId)
  /\ ConstructorArgs = << deps["B"]["T1"], O1 >>

\* The tokens resolved for the parameters of the resolved class during the
\* last call, in the order of their resolution.
InjectedTokens ==
  LET F[j \in 0..Len(last.ev)] ==
        IF j = 0 THEN << >>
        ELSE IF last.ev[j].e = "inject" /\ last.ev[j].who = ResolvedClass
               THEN Append(F[j - 1], last.ev[j].t)
               ELSE F[j - 1]
  IN F[Len(last.ev)]

\* C15: the injection tokens of C are resolved one at a time in increasing
\* parameter position from position 0 on, a failure at position i prevents
\* every resolution at a later position, and the constructor receives at
\* position i the value resolved for the token of position i.
C15_LeftToRight ==
  (last.op = "resolve" /\ OwningContainer(ResolvedClass) # NoContainer
     /\ Undecorated(ResolvedClass) = {}) =>
    LET inj == ClassMeta[ResolvedClass.name].inj
        target == OwningContainer(ResolvedClass)
    IN
    /\ Len(InjectedTokens) <= Cardinality(Positions(ResolvedClass))
    /\ \A j \in 1..Len(InjectedTokens) : InjectedTokens[j] = InjGet(inj, j - 1)
    /\ last.ok =>
         /\ Len(InjectedTokens) = Cardinality(Positions(ResolvedClass))
         /\ Len(ConstructorArgs) = Cardinality(Positions(ResolvedClass))
         /\ \A i \in Positions(ResolvedClass) : ConstructorArgs[i + 1] = deps[target][InjGet(inj, i)]
    /\ (~last.ok /\ last.exc.chain[1].code = "CONTAINER_DEPENDENCY_RESOLUTION_FAILED") =>
         /\ last.exc.chain[1].index = Len(InjectedTokens) - 1
         /\ last.exc.chain[1].token = InjectedTokens[Len(InjectedTokens)]

\* C16: constructing a container with a name the directory does not hold
\* adds the new container under that name; constructing one with a name the
\* directory holds raises, and the entry keeps pointing to the container it
\* pointed to; no other entry and no container changes either way.
C16_DirectoryConstruct ==
  last.op = "construct" =>
    /\ NothingChanged
    /\ last.name \notin DOMAIN last.dir =>
         /\ last.ok
         /\ last.c \in Containers \ last.made
         /\ containers = last.made \cup {last.c}
         /\ DOMAIN directory = DOMAIN last.dir \cup {last.name}
         /\ directory[last.name] = last.c
         /\ \A n \in DOMAIN last.dir : directory[n] = last.dir[n]
    /\ last.name \in DOMAIN last.dir =>
         /\ ~last.ok
         /\ last.exc = BaseError("REGISTRY_ITEM_ALREADY_EXISTS", NoToken, -1, "")
         /\ directory = last.dir
         /\ containers = last.made

\* C16 witness: a second construction under a name failed while the
\* directory held, under that name, a container constructed during the run.
C16_Witness ==
  /\ last.op = "construct" /\ ~last.ok
  /\ directory[last.name] = "C"
  /\ \E t \in Tokens : deps["B"][t] # Absent

\* C17: the Query Cache never lags the entries: after any sequence of calls
\* getAll returns exactly the items stored now, in their order, and
\* getMany(names) returns exactly what a computation over the entries stored
\* now gives.
C17_CacheNeverLags ==
  /\ (called.op = "getAll") =>
       (called.ok /\ called.val.items = MapValues(ITEMS))
  /\ (called.op = "getMany" /\ called.names.kind = "array") =>
       (called.ok /\ called.val.items = Present(RegistryCore, called.names.items))

\* Number of positions of the sequence items that hold v.
Count(v, items) == Cardinality({j \in 1..Len(items) : items[j] = v})

\* Number of names item v is stored under.
StoredUnder(v) == Cardinality({j \in 1..Len(ITEMS) : ITEMS[j].value = v})

\* What getAll returns when called now.
AllNow == RegistryGetAll(RegistryCore).val

\* The reference part of C18: a getAll with only queries since the previous
\* getAll returns the array that one returned, and a getAll after a
\* successful register or an unregister returns another array.
C18_References ==
  (called.op = "getAll" /\ called.held.arr # NoResult) =>
    /\ called.held.quiet => called.val = called.held.arr
    /\ called.held.stale => called.val.ref # called.held.arr.ref

\* C18 as claimed: after register(n, i) succeeds getAll() contains i exactly
\* once; and the reference part.
C18_ExactlyOnce ==
  /\ (called.op = "register" /\ called.ok) => Count(called.item, AllNow.items) = 1
  /\ C18_References

\* C18 amended: after register(n, i) succeeds getAll() contains i once for
\* each name i is stored under, so exactly once when n is the only such
\* name; and the reference part.
C18_OncePerName ==
  /\ (called.op = "register" /\ called.ok) =>
       /\ Count(called.item, AllNow.items) = StoredUnder(called.item)
       /\ StoredUnder(called.item) >= 1
       /\ MapLookup(ITEMS, String(called.name)) = called.item
       /\ Len(AllNow.items) = Len(ITEMS)
  /\ C18_References

\* C18 witness: getAll returned a new array, holding one item twice, after a
\* register that followed an earlier getAll.
C18_Witness ==
  /\ called.op = "getAll"
  /\ called.held.arr # NoResult /\ called.held.stale
  /\ called.val.ref # called.held.arr.ref
  /\ Len(called.held.arr.items) = 1
  /\ Count(I1, called.val.items) = 2

\* The registry as it was before the last call on it.
RegistryBefore == called.pre

\* The last registry call left the entries and the Query Cache as they were.
RegistryUnchanged == ITEMS = RegistryBefore.ITEMS /\ CACHE = RegistryBefore.CACHE

\* C19: register(name, item) raises InvalidItem when item is null / absent
\* (the item is looked at first) and ItemAlreadyExists when name is present;
\* either failure leaves the entries and the Query Cache as they were, the
\* stored item being the first one; a success adds the entry and empties
\* the Query Cache.
C19_RegisterGuards ==
  called.op = "register" =>
    LET present == MapHas(RegistryBefore.ITEMS, String(called.name)) IN
    /\ called.item = Undef =>
         /\ ~called.ok
         /\ called.exc = BaseError("REGISTRY_ITEM_NOT_NULL_OR_UNDEFINED", NoToken, -1, "")
         /\ RegistryUnchanged
    /\ (called.item # Undef /\ present) =>
         /\ ~called.ok
         /\ called.exc = BaseError("REGISTRY_ITEM_ALREADY_EXISTS", NoToken, -1, "")
         /\ RegistryUnchanged
         /\ RegistryGet(RegistryCore, called.name) = RegistryGet(RegistryBefore, called.name)
    /\ (called.item # Undef /\ ~present) =>
         /\ called.ok
         /\ ITEMS = Append(RegistryBefore.ITEMS, Entry(String(called.name), called.item))
         /\ RegistryGet(RegistryCore, called.name) = called.item
         /\ CACHE = NoCache

\* C19 witness: a register of another item under a present name was
\* rejected while the Query Cache held results.
C19_Witness ==
  /\ called.op = "register" /\ ~called.ok
  /\ called.item # Undef
  /\ RegistryGet(RegistryCore, called.name) \notin {Undef, called.item}
  /\ GetAllKey \in DOMAIN CACHE
  /\ Cardinality(DOMAIN CACHE) >= 2

\* The stored items of those of names that are present, in the order of names.
StoredOf(names) ==
  LET F[i \in 0..Len(names)] ==
        IF i = 0 THEN << >>
        ELSE IF MapHas(ITEMS, String(names[i]))
               THEN Append(F[i - 1], MapLookup(ITEMS, String(names[i])))
               ELSE F[i - 1]
  IN F[Len(names)]

\* C20: getMany(names) raises nothing and returns exactly the stored items of
\* the names that are present, in the order of names; absent names
\* contribute nothing.
C20_GetManyPresent ==
  (called.op = "getMany" /\ called.names.kind = "array") =>
    /\ called.ok
    /\ called.val.items = StoredOf(called.names.items)
    /\ RegistryUnchanged \/ CACHE = CacheSet(RegistryBefore.CACHE, GetManyKey(called.names.items), called.val)

\* The <<name, item>> properties registerMany was given.
GivenEntries == called.items.entries

\* Entry i comes with a value and its name was present before the call.
EntryFails(i) ==
  /\ GivenEntries[i][2] # Undef
  /\ MapHas(RegistryBefore.ITEMS, String(GivenEntries[i][1]))

\* The position of the first entry whose register fails, or one past the last.
FirstFailure ==
  IF \E i \in 1..Len(GivenEntries) : EntryFails(i)
    THEN CHOOSE i \in 1..Len(GivenEntries) :
           EntryFails(i) /\ \A j \in 1..(i - 1) : ~EntryFails(j)
    ELSE Len(GivenEntries) + 1

\* The entries with a value among the first n, in order, as stored.
ValuedPrefix(n) ==
  LET F[i \in 0..n] ==
        IF i = 0 THEN << >>
        ELSE IF GivenEntries[i][2] = Undef THEN F[i - 1]
        ELSE Append(F[i - 1], Entry(String(GivenEntries[i][1]), GivenEntries[i][2]))
  IN F[n]

\* C21: registerMany(items) registers the entries in order and passes over a
\* name without a value; the first entry whose register fails raises that
\* error and ends the call: the entries before it stay registered and the
\* entries after it are not registered.
C21_RegisterManyStopsAtFailure ==
  (called.op = "registerMany" /\ called.items.kind = "object") =>
    /\ called.ok <=> FirstFailure > Len(GivenEntries)
    /\ ~called.ok => called.exc = BaseError("REGISTRY_ITEM_ALREADY_EXISTS", NoToken, -1, "")
    /\ ITEMS = RegistryBefore.ITEMS \o ValuedPrefix(FirstFailure - 1)

\* C21 witness: a registerMany of three entries failed at the second, with
\* the first registered by it and the third left out.
C21_Witness ==
  /\ called.op = "registerMany" /\ ~called.ok
  /\ Len(GivenEntries) = 3 /\ FirstFailure = 2
  /\ MapHas(ITEMS, String(GivenEntries[1][1]))
  /\ ~MapHas(RegistryBefore.ITEMS, String(GivenEntries[1][1]))
  /\ GivenEntries[3][2] # Undef
  /\ ~MapHas(ITEMS, String(GivenEntries[3][1]))

\* The last factory call was create(name) and returned.
Created == created.op = "create" /\ created.ok

\* What the object the last create returned looks like.
ReturnedLooks == Snapshot(heap, created.ref)

\* What the template stored under the name of the last create looked like
\* when create was called.
StoredLooks == Snapshot(created.pre.heap, RegistryGet(created.pre.rs, created.name).id)

\* The objects of the templates, of the factory's cache and of the value an
\* earlier create returned.
OtherObjects ==
  UNION ({Reach(heap, t.id) : t \in Templates}
         \cup {Reach(heap, FACTORY_CACHE[n]) : n \in DOMAIN FACTORY_CACHE}
         \cup {Reach(heap, given[2])})

\* The returned object shares no object with the templates, the cache or an
\* earlier returned value, and looks as the first value returned for its name.
Independent ==
  /\ Reach(heap, created.ref) \cap OtherObjects = {}
  /\ ReturnedLooks = span[created.name].first

DoubledLooks(t) == <<t[1] * 2, t[2]>>

\* The last create returned a value that looks like the first transformed
\* result of its name and shares no object with the value returned before it.
EqualsFirstTransformed ==
  (Created /\ TRANSFORMER # "none") =>
    /\ ReturnedLooks = span[created.name].first
    /\ ReturnedLooks = DoubledLooks(span[created.name].from)
    /\ Reach(heap, given[1]) \cap Reach(heap, given[2]) = {}

FactoryUnchanged == created.post = created.pre

\* C24: create(name) for a name with no cached value and no Registry entry
\* fails with TemplateNotFound, caches nothing and changes nothing; with no
\* cached value and a Registry entry it succeeds with the template that is
\* registered then, whatever failed before.
C24_TemplateNotFound ==
  (created.op = "create" /\ FactoryCacheGet(created.pre.cache, created.name) = Nil) =>
    IF RegistryHas(created.pre.rs, created.name)
      THEN /\ created.ok
           /\ ReturnedLooks = StoredLooks
           /\ FactoryCacheGet(created.post.cache, created.name) # Nil
      ELSE /\ ~created.ok
           /\ created.exc = BaseError("TEMPLATE_NOT_FOUND", NoToken, -1, "")
           /\ FactoryUnchanged

\* C24 witness: a create succeeded with the registered template for a name
\* whose create had failed before.
C24_Witness ==
  /\ Created
  /\ created.queried
  /\ span[created.name].queries = 2
  /\ span[created.name].found = 1
  /\ ReturnedLooks = StoredLooks

\* What the value cached under the name of the last create looked like when
\* create was called.
CachedLooks == Snapshot(created.pre.heap, FactoryCacheGet(created.pre.cache, created.name))

\* A create of a name with a cached value returns a value that looks like the
\* cached one, as the first one did, whatever the Registry holds by then; a
\* create of a name without one reflects the Registry.
StaleOrFresh ==
  created.op = "create" =>
    IF FactoryCacheGet(created.pre.cache, created.name) # Nil
      THEN /\ created.ok
           /\ ReturnedLooks = CachedLooks
           /\ ReturnedLooks = span[created.name].first
           /\ created.post.cache = created.pre.cache
      ELSE IF RegistryHas(created.pre.rs, created.name)
        THEN created.ok /\ ReturnedLooks = StoredLooks
        ELSE ~created.ok /\ created.exc = BaseError("TEMPLATE_NOT_FOUND", NoToken, -1, "")

\* A cached value goes or changes only in a clearCache call of its name or of
\* no name.
OnlyClearCacheClears ==
  \A n \in TemplateNames :
    (FactoryCacheGet(FACTORY_CACHE, n) # Nil
       /\ Snapshot(heap', FactoryCacheGet(FACTORY_CACHE', n)) # Snapshot(heap, FactoryCacheGet(FACTORY_CACHE, n)))
      => created'.op = "clearCache" /\ created'.name \in {n, NoSymbol}

\* C25: once create(n) has succeeded, no Registry mutation changes what
\* create(n) returns; only clearCache(n) or clearCache() does, and the next
\* create(n) after it reflects the Registry as it is then.
C25_StaleUntilCleared == []StaleOrFresh /\ [][OnlyClearCacheClears]_vars

\* C25 witness: a create was answered from the cache with a value that is
\* not what the template registered under its name looks like.
C25_Witness ==
  /\ Created
  /\ FactoryCacheGet(created.pre.cache, created.name) # Nil
  /\ RegistryHas(created.pre.rs, created.name)
  /\ ReturnedLooks # StoredLooks

\* C26: clearCache(name) removes the cached value of exactly that name and
\* leaves every other name's cached value in place; clearCache() removes all
\* cached values; neither changes the Registry's entries or its Query Cache.
C26_ClearCacheFrame ==
  created.op = "clearCache" =>
    /\ created.name # NoSymbol =>
         /\ DOMAIN created.post.cache = DOMAIN created.pre.cache \ {created.name}
         /\ \A n \in DOMAIN created.post.cache : created.post.cache[n] = created.pre.cache[n]
    /\ created.name = NoSymbol => DOMAIN created.post.cache = {}
    /\ created.post.rs = created.pre.rs
    /\ created.post.heap = created.pre.heap

\* C26 witness: clearCache(name) removed one of two cached values while the
\* Registry held entries and a cached getAll result.
C26_Witness ==
  /\ created.op = "clearCache"
  /\ created.name \in DOMAIN created.pre.cache
  /\ Cardinality(DOMAIN created.pre.cache) = 2
  /\ Cardinality(DOMAIN created.post.cache) = 1
  /\ Len(created.pre.rs.ITEMS) = 2
  /\ GetAllKey \in DOMAIN created.pre.rs.CACHE

\* What new Widget(...args) looks like: the class and the arguments it was
\* given, in order.
InstanceLooks(args) == <<"Widget", args>>

\* C27: create(name, ...args) for a name whose Registry entry is a
\* constructor instantiates the constructor with the caller's arguments,
\* unchanged and in order, and returns the resulting instance; when the
\* constructor throws, the exception reaches the caller as it is and nothing
\* is cached for name.
C27_ConstructorInstantiated ==
  (created.op = "create"
     /\ FactoryCacheGet(created.pre.cache, created.name) = Nil
     /\ RegistryGet(created.pre.rs, created.name) = WidgetClass) =>
    /\ created.ok
    /\ ~IsFunctionRef(created.ref)
    /\ ReturnedLooks = InstanceLooks(created.args)

\* The <<container, token>> pairs that resolving the value v held by
\* container c asks for: the injected tokens of an injectable class, in its
\* owner's container, and the token an arrow function gets from c.
Needs(d, dir, c, v) ==
  IF IsInjectableConstructor(v)
    THEN LET meta == ClassMeta[v.name]
             target == DirectoryGet(dir, meta.owner)
         IN IF target = NoContainer THEN {}
            ELSE {<<target, meta.inj[i][2]>> : i \in 1..Len(meta.inj)}
  ELSE IF IsDynamicFactory(v) /\ FactoryBody[v.name].act = "get"
    THEN {<<c, FactoryBody[v.name].tok>>}
  ELSE {}

NodeNeeds(d, dir, n) == Needs(d, dir, n[1], MapGet(d, n[1], n[2]))

\* The pairs reached from the pairs S in at most n steps.
RECURSIVE After(_, _, _, _)
After(d, dir, S, n) ==
  IF n = 0 THEN S
  ELSE After(d, dir, S \cup UNION {NodeNeeds(d, dir, x) : x \in S}, n - 1)

Everywhere == Cardinality(Containers \X Tokens)

\* The registration n depends on itself, directly or through others.
OnCycle(d, dir, n) == n \in After(d, dir, NodeNeeds(d, dir, n), Everywhere)

\* The pairs the last get or resolve call starts from.
StartPairs ==
  IF last.op = "get"
    THEN (IF last.t = NoToken THEN {} ELSE {<<last.c, last.t>>})
    ELSE Needs(last.pre.deps, last.dir, last.c, last.impl)

\* The last call can reach a registration that depends on itself.
CycleReachable ==
  \E n \in After(last.pre.deps, last.dir, StartPairs, Everywhere) :
    OnCycle(last.pre.deps, last.dir, n)

\* The last call failed, and the innermost cause is the exhausted call stack.
Overflowed ==
  /\ ~last.ok
  /\ last.exc.chain # << >>
  /\ last.exc.chain[Len(last.exc.chain)].code = "RANGE_ERROR"

\* get(t) where t is registered with an arrow function that gets t.
RequestsItself ==
  /\ last.op = "get"
  /\ last.t # NoToken
  /\ <<last.c, last.t>> \in NodeNeeds(last.pre.deps, last.dir, <<last.c, last.t>>)

WasHolding == MapGet(last.pre.deps, last.c, last.t)

\* C30 as stated: a get of a token that holds a function with a prototype
\* never returns that function, and fails with ClassNotInjectable wrapped as
\* DependencyResolutionFailed when the class has no injection descriptor.
C30_ConstructorNeverReturned ==
  (Called("get") /\ HasPrototype(WasHolding)) =>
    /\ ~(last.ok /\ last.val = WasHolding)
    /\ ~HasInjectableMeta(WasHolding) =>
         /\ ~last.ok
         /\ Len(last.exc.chain) = 2
         /\ last.exc.chain[1].code = "CONTAINER_DEPENDENCY_RESOLUTION_FAILED"
         /\ last.exc.chain[2].code = "CONTAINER_CLASS_NOT_INJECTABLE"

\* C30: a get of a token that holds a class with an injection descriptor
\* goes through resolve: it returns a new instance of the class, never the
\* class, or fails with DependencyResolutionFailed naming the token; a get
\* of a token that holds a class without an injection descriptor returns the
\* class itself, instantiates nothing and leaves the entries as they were.
C30_InjectableResolved ==
  (Called("get") /\ HasPrototype(WasHolding)) =>
    /\ HasInjectableMeta(WasHolding) =>
         /\ last.ok =>
              /\ last.val.k = "instance" /\ last.val.name = WasHolding.name
              /\ last.val.id >= last.pre.nextId
              /\ Instantiations(WasHolding.name) = 1
         /\ ~last.ok =>
              /\ last.exc.chain[1].code = "CONTAINER_DEPENDENCY_RESOLUTION_FAILED"
              /\ last.exc.chain[1].token = last.t
              /\ Instantiations(WasHolding.name) = 0
    /\ ~HasInjectableMeta(WasHolding) =>
         /\ last.ok /\ last.val = WasHolding
         /\ last.ev = << >>
         /\ deps = last.pre.deps /\ nextId = last.pre.nextId

\* C30 witness: a get of a token registered with an injectable class that
\* has a dependency returned a new instance of it.
C30_Witness ==
  /\ Called("get") /\ last.ok
  /\ WasHolding = Class("K1")
  /\ last.val.k = "instance" /\ last.val.name = "K1"
  /\ Instantiations("K1") = 1

\* The last call ran get(t) on container c inside itself: for a constructor
\* parameter, or from an arrow function it called.
Injected(c, t) ==
  \E i \in 1..Len(last.ev) :
    /\ last.ev[i].c = c
    /\ \/ last.ev[i].e = "inject" /\ last.ev[i].t = t
       \/ /\ last.ev[i].e = "call"
          /\ FactoryBody[last.ev[i].who.name].act = "get"
          /\ FactoryBody[last.ev[i].who.name].tok = t

\* After a direct resolve(C): a returned instance is a new object, made by
\* the one instantiation of C in the call; every token that held C still
\* holds C; an entry that changed belongs to a token the call ran get on.
ResolveKeepsNothing ==
  last.op = "resolve" =>
    /\ last.ok =>
         /\ last.val.k = "instance" /\ last.val.name = last.impl.name
         /\ last.val.id >= last.pre.nextId
         /\ Instantiations(last.impl.name) = 1
    /\ \A c \in Containers, t \in Tokens :
         /\ last.pre.deps[c][t] = last.impl => deps[c][t] = last.impl
         /\ deps[c][t] # last.pre.deps[c][t] => Injected(c, t)

\* Two direct resolve(C) calls in a row that both succeed return different
\* instances.
ResolvedTwice ==
  (last.op = "resolve" /\ last.ok /\ last'.op = "resolve" /\ last'.ok
     /\ last'.impl = last.impl /\ nextId' # nextId)
    => (last'.val # last.val /\ Instantiations(last.impl.name)' = 1)

\* An entry that holds a class changes only by unregister of its token or by
\* a get of its token: get called on it and successful, or run inside the
\* call for a constructor parameter or by an arrow function.
StaysConstructor ==
  \A c \in Containers, t \in Tokens :
    (deps[c][t].k = "class" /\ deps'[c][t] # deps[c][t]) =>
      \/ last'.op = "unregister" /\ last'.c = c /\ last'.t = t
      \/ last'.op = "get" /\ last'.c = c /\ last'.t = t /\ last'.ok
      \/ Injected(c, t)'

\* C29: a direct resolve(C) does not memoize C: two direct resolve(C) calls
\* instantiate C twice and return two distinct instances, and a token under
\* which C is registered holds C until a get of that token succeeds (or the
\* token is unregistered).
C29_ResolveDoesNotMemoize ==
  []ResolveKeepsNothing /\ [][ResolvedTwice /\ StaysConstructor]_vars

\* C29 witness: a direct resolve of a class registered under a token returned
\* the second object of the run while no entry holds an instance, and the
\* token still holds the class.
C29_Witness ==
  /\ last.op = "resolve" /\ last.ok
  /\ last.impl = Class("K0")
  /\ last.pre.deps["A"]["T1"] = Class("K0")
  /\ deps["A"]["T1"] = Class("K0")
  /\ last.val = Instance("K0", 1)
  /\ \A t \in Tokens : deps["A"][t].k # "instance"

\* The name sequences of the getMany calls of a run.
QueriedSequences == {q.items : q \in {n \in QueryInputs : n.kind = "array"}}

\* C31: two different queries never share a Query Cache entry: the key of a
\* getMany call differs from the key of getAll and from the key of every
\* getMany call with another sequence of names.
C31_QueriesDoNotShare ==
  (called.op = "getMany" /\ called.ok) =>
    /\ GetManyKey(called.names.items) # GetAllKey
    /\ \A s \in QueriedSequences :
         s # called.names.items => GetManyKey(s) # GetManyKey(called.names.items)

\* The outcome the last single-name call would have had with the name m in
\* place of its own.
AsCalledWith(m) ==
  IF called.op = "get" THEN RReturn(called.pre, RegistryGet(called.pre, m))
  ELSE IF called.op = "has"
    THEN [st |-> called.pre, ok |-> RegistryHas(called.pre, m), val |-> NoResult, exc |-> NoExc]
  ELSE IF called.op = "register" THEN RegistryRegister(called.pre, m, called.item)
  ELSE RegistryUnregister(called.pre, m)

\* C32: get, has, register and unregister address an entry by the string form
\* of the name: called with any symbol of the same description they return
\* or raise the same and leave the registry in the same state.
C32_MatchedByStringForm ==
  (called.op \in {"get", "has", "register", "unregister"} /\ called.name # NoSymbol) =>
    \A m \in AgainNames :
      m.description = called.name.description =>
        /\ AsCalledWith(m).ok = called.ok
        /\ AsCalledWith(m).val = called.val
        /\ AsCalledWith(m).exc = called.exc
        /\ AsCalledWith(m).st = RegistryCore

\* C32 witness: get called with a later Symbol("a") returned the item that
\* was registered under the first Symbol("a").
C32_Witness ==
  /\ called.op = "get"
  /\ called.name = AgainA
  /\ called.val = I1

\* The operations of a container.
ContainerOperations ==
  {"register", "registerMany", "get", "getMany", "getAll", "has", "resolve",
   "unregister", "unregisterMany", "clear"}

\* A successful construction leaves the directory entry of its name pointing
\* to the new container.
ConstructionEnters ==
  (last.op = "construct" /\ last.ok) =>
    (last.name \in DOMAIN directory /\ directory[last.name] = last.c)

\* An operation of a container leaves the directory as it is; a construction
\* keeps every entry there was.
DirectoryKept ==
  /\ last'.op \in ContainerOperations => directory' = directory
  /\ last'.op = "construct" =>
       \A n \in DOMAIN directory : n \in DOMAIN directory' /\ directory'[n] = directory[n]
  /\ directory' # directory => last'.op \in {"construct", "directory.unregister"}

\* C33: the operations of a container never add or remove a Container
\* Directory entry; an entry added at construction stays, pointing to that
\* container, until unregister is called on the directory.
C33_DirectoryFrame == []ConstructionEnters /\ [][DirectoryKept]_vars

\* C33 witness: clear ran on a container that held a registration, and the
\* directory still has the entries of both containers and of one constructed
\* later.
C33_Witness ==
  /\ last.op = "clear"
  /\ \E t \in Tokens : last.pre.deps[last.c][t] # Absent
  /\ "Z" \in DOMAIN directory
  /\ directory[last.c] = last.c
  /\ \A t \in Tokens : deps[last.c][t] = Absent

\* The tokens of the container of the last call that held, before the call,
\* a plain value or an instance resolved earlier: something other than an
\* injectable constructor or a dynamic factory.
HeldResolved ==
  {t \in Tokens :
     /\ last.pre.deps[last.c][t] # Absent
     /\ ~(IsFunction(last.pre.deps[last.c][t]) /\ HasPrototype(last.pre.deps[last.c][t])
            /\ HasInjectableMeta(last.pre.deps[last.c][t]))
     /\ ~(IsFunction(last.pre.deps[last.c][t]) /\ ~HasPrototype(last.pre.deps[last.c][t]))}

\* C38: getAll returns one element per token that holds a plain instance or
\* an already resolved instance, never an injectable constructor and never a
\* dynamic factory that was not executed, and changes no token's state.
C38_GetAllResolvedOnly ==
  last.op = "getAll" =>
    /\ last.ok
    /\ Len(last.vals) = Cardinality(HeldResolved)
    /\ \A t \in HeldResolved : \E i \in 1..Len(last.vals) : last.vals[i] = last.pre.deps[last.c][t]
    /\ \A i \in 1..Len(last.vals) :
         ~(IsFunction(last.vals[i]) /\ ~HasPrototype(last.vals[i]))
    /\ deps = last.pre.deps /\ nextId = last.pre.nextId

\* C34: has and get agree: has(t) is true exactly when get(t) does not raise
\* DependencyNotFound, whatever t was registered with or resolved to.
C34_HasAgreesWithGet ==
  Called("get") =>
    (Has(last.pre.deps, last.c, last.t)
       <=> ~(~last.ok /\ last.exc.chain[1].code = "CONTAINER_DEPENDENCY_NOT_FOUND"
               /\ last.exc.chain[1].token = last.t))

MemoizedInside(c2, t2) ==
  /\ IsFunction(last.pre.deps[c2][t2])
  /\ deps[c2][t2] \notin {Absent, last.pre.deps[c2][t2]}
  /\ Injected(c2, t2)

ConstructedWith ==
  LET made == {i \in 1..Len(last.ev) : last.ev[i].e = "new" /\ last.ev[i].who = last.val}
  IN IF made = {} THEN << >> ELSE last.ev[CHOOSE i \in made : TRUE].args

\* Number of times the function f was called or instantiated during the last
\* call.
Ran(f) ==
  Cardinality({i \in 1..Len(last.ev) :
                 \/ last.ev[i].e = "call" /\ last.ev[i].who = f
                 \/ last.ev[i].e = "new" /\ last.ev[i].who.k = "instance"
                      /\ f.k = "class" /\ last.ev[i].who.name = f.name})

\* get(d) on container c2 called in the present state.
GetNow(c2, d) == Get(Start, directory, c2, d, MaxDepth)

\* C36: when get(t) resolves a class one of whose parameter tokens d holds a
\* class or an arrow function in the owning container, the value injected is
\* the one a later get(d) on that container returns, d's function ran once
\* during the call and does not run again in the later get.
C36_NestedSingleton ==
  (Called("get") /\ last.ok /\ last.val.k = "instance"
     /\ last.pre.deps[last.c][last.t] = Class(last.val.name)) =>
    \A i \in 1..Len(last.ev) :
      (last.ev[i].e = "inject" /\ last.ev[i].who = Class(last.val.name)
         /\ IsFunction(last.pre.deps[last.ev[i].c][last.ev[i].t])) =>
        /\ GetNow(last.ev[i].c, last.ev[i].t).ok
        /\ \E j \in 1..Len(ConstructedWith) :
             ConstructedWith[j] = GetNow(last.ev[i].c, last.ev[i].t).val
        /\ GetNow(last.ev[i].c, last.ev[i].t).st.ev = << >>
        /\ Ran(last.pre.deps[last.ev[i].c][last.ev[i].t]) = 1

\* What the arrow function the token of the last call held does.
RanBody == FactoryBody[WasHolding.name]

\* The tokens other than the one of the last call are in the state the arrow
\* function gave them: cleared, unregistered, registered with its value, or
\* resolved by its get.
OthersAsFactoryLeft ==
  /\ RanBody.act = "clear" =>
       \A t2 \in Tokens \ {last.t} : deps[last.c][t2] = Absent
  /\ (RanBody.act = "unregister" /\ RanBody.tok # last.t) => deps[last.c][RanBody.tok] = Absent
  /\ RanBody.act = "register" => deps[last.c][RanBody.tok] = RanBody.val
  /\ (RanBody.act = "get" /\ RanBody.tok # last.t) =>
       deps[last.c][RanBody.tok] =
         (IF IsFunction(last.pre.deps[last.c][RanBody.tok])
            THEN last.val ELSE last.pre.deps[last.c][RanBody.tok])

\* The arrow function of the last call removed the token it was called for.
RemovedOwnToken ==
  \/ RanBody.act = "clear"
  \/ RanBody.act = "unregister" /\ RanBody.tok = last.t

\* C37 as stated: when the factory of t unregisters t or clears the container
\* during get(t), t is unregistered after get(t) returned, and the other
\* tokens are as the factory left them.
C37_FactoryUnregisterStands ==
  (Called("get") /\ last.ok /\ WasHolding.k = "arrow") =>
    /\ RemovedOwnToken => deps[last.c][last.t] = Absent
    /\ OthersAsFactoryLeft

\* C37: a factory may call its own container while it runs; get(t) stores the
\* factory's result under t after the factory returned, whatever the factory
\* did to t: when the factory unregistered t or cleared the container, t is
\* registered again and holds the result; the other tokens are as the factory
\* left them.
C37_GetStoresAfterFactory ==
  (Called("get") /\ last.ok /\ WasHolding.k = "arrow") =>
    /\ deps[last.c][last.t] = last.val
    /\ OthersAsFactoryLeft

\* C37 witness: the factory of T1 cleared the container that held T1 and T2;
\* after get(T1), T2 is gone and T1 holds the factory's result.
C37_Witness ==
  /\ Called("get") /\ last.ok /\ last.t = "T1"
  /\ WasHolding = Arrow("FClear")
  /\ last.pre.deps[last.c]["T2"] # Absent
  /\ deps[last.c]["T2"] = Absent
  /\ deps[last.c]["T1"] = last.val
  /\ last.val.k = "object"

\* The cache key of the last query.
QueryKey == IF called.op = "getAll" THEN GetAllKey ELSE GetManyKey(called.names.items)

\* What the last query computes from the stored items.
FromStoredItems ==
  IF called.op = "getAll" THEN MapValues(called.pre.ITEMS) ELSE Present(called.pre, called.names.items)

\* The last call was a query that returned an array.
Queried == called.ok /\ called.op \in {"getAll", "getMany"}

\* C39 as stated: a caller's change of a returned array does not reach the
\* Query Cache, and a query returns exactly the items stored at the time.
C39_ReturnedArrayPrivate ==
  /\ called.op \in {"push", "pop"} => CACHE = called.pre.CACHE
  /\ Queried => called.val.items = FromStoredItems

\* C39: the array a caller receives from getAll or getMany is the array the
\* Query Cache holds: a query that misses the cache returns the stored items
\* and caches that array, a query that hits it returns the cached array as it
\* is now, and elements a caller adds to or removes from a returned array are
\* added to or removed from the cached one, so that later queries return the
\* changed array until a mutation of the Registry clears the cache.
C39_ReturnedArrayIsCached ==
  /\ Queried =>
       /\ CACHE[QueryKey] = called.val
       /\ QueryKey \in DOMAIN called.pre.CACHE => called.val = called.pre.CACHE[QueryKey]
       /\ QueryKey \notin DOMAIN called.pre.CACHE => called.val.items = FromStoredItems
  /\ called.op \in {"push", "pop"} =>
       /\ DOMAIN CACHE = DOMAIN called.pre.CACHE
       /\ \A k \in DOMAIN CACHE :
            CACHE[k] = (IF called.pre.CACHE[k].ref = called.val.ref
                          THEN called.val ELSE called.pre.CACHE[k])

\* C39 witness: getAll returned an array that holds an object the caller had
\* pushed, which is not among the stored items.
C39_Witness ==
  /\ called.op = "getAll" /\ called.ok
  /\ Len(called.pre.ITEMS) = 2
  /\ \E i \in 1..Len(called.val.items) : called.val.items[i] = Foreign
  /\ \A i \in 1..Len(ITEMS) : ITEMS[i].value # Foreign

====
